---- MODULE Spec2Model ----
(***************************************************************************)
(* sports-oracle: the payment-gated oracle server (server.mjs), the two   *)
(* oracle modules it loads (oracle.js for /api/verify, reddit-oracle.js   *)
(* for /api/reddit) and the sports oracle with safety rails               *)
(* (unnamed/part_000, run from its command line).                          *)
(*                                                                         *)
(* Node runs one callback at a time: an action of this model is the code   *)
(* that runs between two awaits of one request.  Confidence values are     *)
(* hundredths (0.85 is 85).  The outcome flag of a result is `success` in  *)
(* reddit-oracle.js and `verified` in the sports oracles; the model calls  *)
(* both `flag`.                                                            *)
(***************************************************************************)
EXTENDS Integers, Sequences, FiniteSets, TLC

\* ---------------------------------------------------------------- bounds
MaxArrivals == 3          \* requests that arrive in one run
MaxDay == 1               \* calendar days 0..MaxDay the clock can reach
MaxTime == 6              \* the millisecond clock runs from RequestDelay to MaxTime (seconds)
MaxCalls == 3             \* adapter calls made in one run of the pacing specification
MaxWords == 3             \* words in a question given to a parser
MaxRuns == 6              \* askOracle calls made one after another in one run of the runs specification
MaxBalance == 2           \* credits a credential starts with, at most
MaxConfidence == 100      \* confidences -MaxConfidence..MaxConfidence (hundredths) given to the floor

\* ------------------------------------------------------ program constants
MaxConsecutiveErrors == 5         \* SAFETY_LIMITS.maxConsecutiveErrors
MaxQueriesPerDayReddit == 500     \* reddit-oracle.js SAFETY_LIMITS.maxQueriesPerDay
MaxQueriesPerDaySports == 1000    \* part_000 SAFETY_LIMITS.maxQueriesPerDay
MinConfidenceFloor == 50          \* SAFETY_LIMITS.minConfidenceFloor = 0.5
RecentCap == 50                   \* recentQueries.slice(0, 50)
HoursPerDay == 24                 \* new Array(24)
SportsBaseConfidence == 75        \* verifyResult: let confidence = 0.75
SportsOpponentConfidence == 85    \* verifyResult: confidence = 0.85
RedditBaseConfidence == 85        \* askOracle: let confidence = 0.85
RedditSearchConfidence == 80      \* askOracle: confidence = 0.80
RequestDelay == 2                 \* SAFETY_LIMITS.requestDelayMs = 2000, in seconds

\* ---------------------------------------------------------------- strings
\* A JavaScript string is the sequence of its characters, each a string of
\* length one.  Null stands for null, undefined and the empty string, which
\* the code tells apart nowhere: it only tests them for truthiness.
Null == <<>>

UpperLetters == <<"A", "B", "C", "D", "E", "F", "G", "H", "I", "J", "K", "L", "M", "N", "O", "P", "Q", "R", "S", "T", "U", "V", "W", "X", "Y", "Z">>
LowerLetters == <<"a", "b", "c", "d", "e", "f", "g", "h", "i", "j", "k", "l", "m", "n", "o", "p", "q", "r", "s", "t", "u", "v", "w", "x", "y", "z">>
Digits == {"0", "1", "2", "3", "4", "5", "6", "7", "8", "9"}

IsUpper(c) == \E k \in 1..Len(UpperLetters) : UpperLetters[k] = c
IsLower(c) == \E k \in 1..Len(LowerLetters) : LowerLetters[k] = c

\* String.prototype.toLowerCase, one character.
ToLowerChar(c) ==
  IF IsUpper(c)
  THEN LowerLetters[CHOOSE k \in 1..Len(UpperLetters) : UpperLetters[k] = c]
  ELSE c

\* String.prototype.toLowerCase
toLowerCase(s) == [k \in 1..Len(s) |-> ToLowerChar(s[k])]

\* s.substring(from - 1, from - 1 + n): the n characters of s from index from.
Sub(s, from, n) == SubSeq(s, from, from + n - 1)

\* sub occurs in s at index k (1-based).
MatchesAt(s, k, sub) ==
  /\ k >= 1 /\ k + Len(sub) - 1 <= Len(s)
  /\ Sub(s, k, Len(sub)) = sub

\* String.prototype.includes
includes(s, sub) == \E k \in 1..(Len(s) - Len(sub) + 1) : MatchesAt(s, k, sub)

\* The character classes of the parsers' regular expressions.
AlnumChars ==                                   \* [a-z0-9] under /i
  {UpperLetters[k] : k \in 1..Len(UpperLetters)}
    \cup {LowerLetters[k] : k \in 1..Len(LowerLetters)} \cup Digits
LowerChars == {LowerLetters[k] : k \in 1..Len(LowerLetters)}    \* [a-z]
WordChars == AlnumChars \cup {"_"}               \* [a-zA-Z0-9_], \w
SpaceChars == {" ", "\t", "\n", "\r"}            \* \s
IsDigit(c) == c \in Digits
IsAlnum(c) == c \in AlnumChars
IsWordChar(c) == c \in WordChars
IsSpace(c) == c \in SpaceChars

\* The length of the longest run of characters of the class in s from index
\* k (what a greedy class* consumes there).
RunLength(s, k, class) ==
  CHOOSE n \in 0..(Len(s) - k + 1) :
    /\ \A j \in k..(k + n - 1) : s[j] \in class
    /\ k + n > Len(s) \/ s[k + n] \notin class

\* The lower-case word occurs in s at index k under /i.
MatchesAtNoCase(s, k, word) ==
  /\ k >= 1 /\ k + Len(word) - 1 <= Len(s)
  /\ \A j \in 1..Len(word) : ToLowerChar(s[k + j - 1]) = word[j]

\* The least element of a non-empty set of indices: a regular expression
\* matches at the leftmost index it can.
Leftmost(S) == CHOOSE k \in S : \A j \in S : k <= j

Slots == {1, 2}                   \* requests in flight at the same time
Days == 0..MaxDay
SampleHours == {0, 23}            \* hours of the day the clock is sampled at

\* The oracle modules.  "oracle" is oracle.js (no safety rails, no stats),
\* "reddit" is reddit-oracle.js, "safe" is unnamed/part_000.
StatsDomains == {"reddit", "safe"}

\* The entry points: the two paid endpoints of server.mjs and the command
\* line of part_000.
Endpoints == {"verify", "reddit", "cli"}

\* handleRequest: which module serves an entry point.
OracleOf(ep) ==
  CASE ep = "verify" -> "oracle"
    [] ep = "reddit" -> "reddit"
    [] OTHER -> "safe"

\* The entry points that go through handleOracleRequest.
IsPaid(ep) == ep \in {"verify", "reddit"}

MaxQueriesPerDay(d) ==
  IF d = "reddit" THEN MaxQueriesPerDayReddit ELSE MaxQueriesPerDaySports

\* ----------------------------------------------------------- stats store
\* loadStats: the state returned when the file is missing or unreadable.
ZeroStats(day) ==
  [totalQueries |-> 0, todayQueries |-> 0, successCount |-> 0,
   errorCount |-> 0, confidenceSum |-> 0,
   hourlyData |-> [h \in 1..HoursPerDay |-> 0],
   recentQueries |-> <<>>, lastReset |-> day]

\* loadStats: the parsed document when the file exists and parses, the zero
\* state otherwise.  f is the file: [kind, doc].  Its kinds: "missing";
\* "unparseable", content JSON.parse throws on; "json", a stats document;
\* "other_json", content that parses to something else (doc is the object {}).
loadStats(f, clk) ==
  IF f.kind \in {"json", "other_json"} THEN f.doc ELSE ZeroStats(clk.day)

\* Reading stats.recentQueries.slice throws a TypeError: the parsed content
\* has no recentQueries.
NoRecentQueries(f) == f.kind = "other_json"

\* What checkSafetyLimits yields when it throws.
Thrown == [safe |-> FALSE, reason |-> "throws"]

\* saveStats: the file after writing the document.
saveStats(s) == [kind |-> "json", doc |-> s]

\* The entry logQuery puts at the head of recentQueries.
\* Of its fields (timestamp, query, outcome flag, subreddit or winner,
\* error) the model keeps the outcome flag, the one field the code reads back.
LogEntry(d, result) == [flag |-> result.flag]

\* Array.prototype.slice(0, n)
SliceHead(s, n) == IF Len(s) <= n THEN s ELSE SubSeq(s, 1, n)

\* logQuery mutated: the new entry is pushed at the end, not unshifted.
LogQueryAppendMutant(d, f, result, clk) ==
  LET s0 == loadStats(f, clk)
      s1 == IF s0.lastReset # clk.day
            THEN [s0 EXCEPT !.todayQueries = 0,
                            !.hourlyData = [h \in 1..HoursPerDay |-> 0],
                            !.lastReset = clk.day]
            ELSE s0
      s2 == [s1 EXCEPT
               !.totalQueries = @ + 1,
               !.todayQueries = @ + 1,
               !.hourlyData[clk.hour + 1] = @ + 1,
               !.successCount = IF result.flag THEN @ + 1 ELSE @,
               !.confidenceSum = IF result.flag /\ d = "safe"
                                 THEN @ + result.confidence ELSE @,
               !.errorCount = IF result.flag THEN @ ELSE @ + 1]
      s3 == [s2 EXCEPT
               !.recentQueries = SliceHead(Append(@, LogEntry(d, result)), RecentCap)]
  IN saveStats(s3)

\* logQuery mutated: on a new day the hourly buckets are kept.
LogQueryBucketsKeptMutant(d, f, result, clk) ==
  LET s0 == loadStats(f, clk)
      s1 == IF s0.lastReset # clk.day
            THEN [s0 EXCEPT !.todayQueries = 0,
                            !.lastReset = clk.day]
            ELSE s0
      s2 == [s1 EXCEPT
               !.totalQueries = @ + 1,
               !.todayQueries = @ + 1,
               !.hourlyData[clk.hour + 1] = @ + 1,
               !.successCount = IF result.flag THEN @ + 1 ELSE @,
               !.confidenceSum = IF result.flag /\ d = "safe"
                                 THEN @ + result.confidence ELSE @,
               !.errorCount = IF result.flag THEN @ ELSE @ + 1]
      s3 == [s2 EXCEPT
               !.recentQueries = SliceHead(<<LogEntry(d, result)>> \o @, RecentCap)]
  IN saveStats(s3)

\* logQuery mutated: a failed query is not counted in todayQueries.
LogQueryFailureUncountedMutant(d, f, result, clk) ==
  LET s0 == loadStats(f, clk)
      s1 == IF s0.lastReset # clk.day
            THEN [s0 EXCEPT !.todayQueries = 0,
                            !.hourlyData = [h \in 1..HoursPerDay |-> 0],
                            !.lastReset = clk.day]
            ELSE s0
      s2 == [s1 EXCEPT
               !.totalQueries = @ + 1,
               !.todayQueries = IF result.flag THEN @ + 1 ELSE @,
               !.hourlyData[clk.hour + 1] = @ + 1,
               !.successCount = IF result.flag THEN @ + 1 ELSE @,
               !.confidenceSum = IF result.flag /\ d = "safe"
                                 THEN @ + result.confidence ELSE @,
               !.errorCount = IF result.flag THEN @ ELSE @ + 1]
      s3 == [s2 EXCEPT
               !.recentQueries = SliceHead(<<LogEntry(d, result)>> \o @, RecentCap)]
  IN saveStats(s3)

\* logQuery mutated: on a new day the lifetime count of queries is reset
\* with the daily one.
LogQueryResetsTotalMutant(d, f, result, clk) ==
  LET s0 == loadStats(f, clk)
      s1 == IF s0.lastReset # clk.day
            THEN [s0 EXCEPT !.totalQueries = 0,
                            !.todayQueries = 0,
                            !.hourlyData = [h \in 1..HoursPerDay |-> 0],
                            !.lastReset = clk.day]
            ELSE s0
      s2 == [s1 EXCEPT
               !.totalQueries = @ + 1,
               !.todayQueries = @ + 1,
               !.hourlyData[clk.hour + 1] = @ + 1,
               !.successCount = IF result.flag THEN @ + 1 ELSE @,
               !.confidenceSum = IF result.flag /\ d = "safe"
                                 THEN @ + result.confidence ELSE @,
               !.errorCount = IF result.flag THEN @ ELSE @ + 1]
      s3 == [s2 EXCEPT
               !.recentQueries = SliceHead(<<LogEntry(d, result)>> \o @, RecentCap)]
  IN saveStats(s3)

\* logQuery: load, reset the daily counters on a new day, count the query,
\* put the entry at the head of recentQueries, trim to 50, save.
LogQuery(d, f, result, clk) ==
  LET s0 == loadStats(f, clk)
      s1 == IF s0.lastReset # clk.day
            THEN [s0 EXCEPT !.todayQueries = 0,
                            !.hourlyData = [h \in 1..HoursPerDay |-> 0],
                            !.lastReset = clk.day]
            ELSE s0
      s2 == [s1 EXCEPT
               !.totalQueries = @ + 1,
               !.todayQueries = @ + 1,
               !.hourlyData[clk.hour + 1] = @ + 1,
               !.successCount = IF result.flag THEN @ + 1 ELSE @,
               !.confidenceSum = IF result.flag /\ d = "safe"
                                 THEN @ + result.confidence ELSE @,
               !.errorCount = IF result.flag THEN @ ELSE @ + 1]
      s3 == [s2 EXCEPT
               !.recentQueries = SliceHead(<<LogEntry(d, result)>> \o @, RecentCap)]
  IN saveStats(s3)

\* The number of entries of s that are failures (filter(q => !q.success)).
RECURSIVE CountErrors(_)
CountErrors(s) ==
  IF s = <<>> THEN 0
  ELSE (IF Head(s).flag THEN 0 ELSE 1) + CountErrors(Tail(s))

\* checkSafetyLimits mutated: the breaker looks at one entry too few.
CheckSafetyLimitsShortMutant(d, f, clk) ==
  LET stats == loadStats(f, clk)
      recentQueries == SliceHead(stats.recentQueries, MaxConsecutiveErrors - 1)
  IN IF NoRecentQueries(f) THEN Thrown
     ELSE IF Len(recentQueries) >= MaxConsecutiveErrors - 1
        /\ CountErrors(recentQueries) = MaxConsecutiveErrors - 1
     THEN [safe |-> FALSE, reason |-> "circuit_breaker_tripped"]
     ELSE IF stats.todayQueries >= MaxQueriesPerDay(d)
     THEN [safe |-> FALSE, reason |-> "daily_limit_reached"]
     ELSE [safe |-> TRUE, reason |-> "none"]

\* checkSafetyLimits mutated: the length test is strict, so the breaker
\* never trips.
CheckSafetyLimitsStrictMutant(d, f, clk) ==
  LET stats == loadStats(f, clk)
      recentQueries == SliceHead(stats.recentQueries, MaxConsecutiveErrors)
      consecutiveErrors == CountErrors(recentQueries)
  IN IF NoRecentQueries(f) THEN Thrown
     ELSE IF Len(recentQueries) > MaxConsecutiveErrors
        /\ consecutiveErrors = MaxConsecutiveErrors
     THEN [safe |-> FALSE, reason |-> "circuit_breaker_tripped"]
     ELSE IF stats.todayQueries >= MaxQueriesPerDay(d)
     THEN [safe |-> FALSE, reason |-> "daily_limit_reached"]
     ELSE [safe |-> TRUE, reason |-> "none"]

\* checkSafetyLimits mutated: the quota test is strict.
CheckSafetyLimitsQuotaStrictMutant(d, f, clk) ==
  LET stats == loadStats(f, clk)
      recentQueries == SliceHead(stats.recentQueries, MaxConsecutiveErrors)
      consecutiveErrors == CountErrors(recentQueries)
  IN IF NoRecentQueries(f) THEN Thrown
     ELSE IF Len(recentQueries) >= MaxConsecutiveErrors
        /\ consecutiveErrors = MaxConsecutiveErrors
     THEN [safe |-> FALSE, reason |-> "circuit_breaker_tripped"]
     ELSE IF stats.todayQueries > MaxQueriesPerDay(d)
     THEN [safe |-> FALSE, reason |-> "daily_limit_reached"]
     ELSE [safe |-> TRUE, reason |-> "none"]

\* checkSafetyLimits: the circuit breaker first, then the daily quota.
checkSafetyLimits(d, f, clk) ==
  LET stats == loadStats(f, clk)
      recentQueries == SliceHead(stats.recentQueries, MaxConsecutiveErrors)
      consecutiveErrors == CountErrors(recentQueries)
  IN IF NoRecentQueries(f) THEN Thrown
     ELSE IF Len(recentQueries) >= MaxConsecutiveErrors
        /\ consecutiveErrors = MaxConsecutiveErrors
     THEN [safe |-> FALSE, reason |-> "circuit_breaker_tripped"]
     ELSE IF stats.todayQueries >= MaxQueriesPerDay(d)
     THEN [safe |-> FALSE, reason |-> "daily_limit_reached"]
     ELSE [safe |-> TRUE, reason |-> "none"]

\* applyConfidenceFloor mutated: a confidence of zero is raised too.
ApplyConfidenceFloorZeroMutant(confidence) ==
  IF confidence >= 0 /\ confidence < MinConfidenceFloor
  THEN MinConfidenceFloor
  ELSE confidence

\* applyConfidenceFloor
applyConfidenceFloor(confidence) ==
  IF confidence > 0 /\ confidence < MinConfidenceFloor
  THEN MinConfidenceFloor
  ELSE confidence

\* ------------------------------------------------------- oracle results
NoPayment == [set |-> FALSE, creditsUsed |-> 0, error |-> "none"]

\* A result object of askOracle: outcome flag, confidence, error,
\* safetyTriggered, and the payment sub-record the handler attaches.
Result(flag, confidence, error, safetyTriggered) ==
  [flag |-> flag, confidence |-> confidence, error |-> error,
   safetyTriggered |-> safetyTriggered, payment |-> NoPayment]

NoResult == Result(FALSE, 0, "none", FALSE)

\* askOracle: the result returned when the safety pre-check rejects.
SafetyResult(check) == Result(FALSE, 0, check.reason, TRUE)

\* askOracle: the result returned when a required field was not parsed.
ParseErrorResult(error) == Result(FALSE, 0, error, FALSE)

\* The parsed questions, by what the parser extracted.  "non_string" is a
\* truthy body.question that is no string (question.match is no function).
SportsQuestions == {"no_team", "team", "team_opponent"}
RedditQuestions ==
  {"no_subreddit", "listing", "post", "post_no_id", "search", "search_no_keyword"}

Questions(ep) ==
  CASE ep = "verify" -> SportsQuestions \cup {"non_string"}
    [] ep = "reddit" -> RedditQuestions \cup {"non_string"}
    [] OTHER -> SportsQuestions

\* RedditParseError mutated: a POST question without a post id is let
\* through to the adapter.
RedditParseErrorPostUncheckedMutant(q) ==
  CASE q = "no_subreddit" -> "could_not_parse_subreddit"
    [] q = "search_no_keyword" -> "could_not_parse_search_keyword"
    [] OTHER -> "none"

\* askOracle (reddit-oracle.js): the parse error of a question, "none" when
\* the adapter can be called.
RedditParseError(q) ==
  CASE q = "no_subreddit" -> "could_not_parse_subreddit"
    [] q = "post_no_id" -> "could_not_parse_post_id"
    [] q = "search_no_keyword" -> "could_not_parse_search_keyword"
    [] OTHER -> "none"

\* What the provider answers to each Reddit adapter operation, as the
\* adapter classifies it: success and, per operation, one of its error
\* kinds (network_error stands for a thrown error's message).
RedditData(q) ==
  CASE q = "listing" -> {"ok", "rate_limited"}
    [] q = "post" -> {"ok", "post_not_found"}
    [] OTHER -> {"ok", "network_error"}

\* What TheSportsDB answers to the team search and to the events request,
\* as querySportsDB classifies it ("none": an event on the date).
TeamSearchAnswers == {"team_not_found", "teams"}
EventsAnswers == {"network_error", "event_not_found_on_date", "none"}

\* ------------------------------------------------ Reddit adapter functions
\* What axios.get does with one provider request: it rejects with an error
\* that carries the response (a status outside 2xx), rejects with an error
\* without a response (timeout, network), or resolves with a parsed body.
\* The bodies, by shape: "empty" (no data), "object" (an object without a
\* data field), "listing" ({data: {children: [...]}}), "listing_no_children"
\* ({data: {}}), "post_array" (an array whose first listing holds a post),
\* "empty_array" ([]).
Statuses == {404, 403, 429, 500}
NetworkMessages == {"timeout of 10000ms exceeded", "getaddrinfo ENOTFOUND www.reddit.com"}
Bodies == {"empty", "object", "listing", "listing_no_children", "post_array", "empty_array"}

Responses ==
  [kind : {"status"}, status : Statuses, message : {"none"}, body : {"none"}]
    \cup [kind : {"no_response"}, status : {0}, message : NetworkMessages, body : {"none"}]
    \cup [kind : {"body"}, status : {0}, message : {"none"}, body : Bodies]

\* error.message of the error axios.get rejects with.
ErrorMessage(resp) ==
  IF resp.kind = "no_response" THEN resp.message
  ELSE CASE resp.status = 404 -> "Request failed with status code 404"
         [] resp.status = 403 -> "Request failed with status code 403"
         [] resp.status = 429 -> "Request failed with status code 429"
         [] OTHER -> "Request failed with status code 500"

\* error.message of the TypeError thrown inside the try block by
\* response.data.data.children.map when children is missing.
NoChildrenMessage == "Cannot read properties of undefined (reading 'map')"

\* fetchSubreddit after enforceRateLimit: the error of the value it returns,
\* "none" for a success.
fetchSubreddit(resp) ==
  IF resp.kind = "body"
  THEN CASE resp.body = "listing" -> "none"
         [] resp.body = "listing_no_children" -> NoChildrenMessage
         [] OTHER -> "invalid_response"
  ELSE IF resp.kind = "status" /\ resp.status = 404 THEN "subreddit_not_found"
  ELSE IF resp.kind = "status" /\ resp.status = 403 THEN "subreddit_private"
  ELSE IF resp.kind = "status" /\ resp.status = 429 THEN "rate_limited"
  ELSE ErrorMessage(resp)

\* fetchPost after enforceRateLimit.
fetchPost(resp) ==
  IF resp.kind = "body"
  THEN CASE resp.body = "post_array" -> "none"
         [] resp.body = "empty_array" -> "post_not_found"
         [] OTHER -> "invalid_response"
  ELSE ErrorMessage(resp)

\* searchSubreddit after enforceRateLimit.
searchSubreddit(resp) ==
  IF resp.kind = "body"
  THEN CASE resp.body = "listing" -> "none"
         [] resp.body = "listing_no_children" -> NoChildrenMessage
         [] OTHER -> "invalid_response"
  ELSE ErrorMessage(resp)

\* The adapter functions by the operation askOracle chooses.
Operations == {"listing", "post", "search"}
Adapter(op, resp) ==
  CASE op = "listing" -> fetchSubreddit(resp)
    [] op = "post" -> fetchPost(resp)
    [] OTHER -> searchSubreddit(resp)

\* ------------------------------------- parseQuestion (reddit-oracle.js)
\* /r\/([a-zA-Z0-9_]+)/i : the capture, Null when there is no match.
MatchSubredditMarker(question) ==
  LET starts == {k \in 1..Len(question) :
                   /\ MatchesAtNoCase(question, k, <<"r", "/">>)
                   /\ k + 2 <= Len(question) /\ IsWordChar(question[k + 2])}
  IN IF starts = {} THEN Null
     ELSE LET k == Leftmost(starts)
          IN Sub(question, k + 2, RunLength(question, k + 2, WordChars))

\* The words of (?:on|from|in); no two of them begin with the same letter,
\* so at most one matches at an index.
Prepositions == { <<"o", "n">>, <<"f", "r", "o", "m">>, <<"i", "n">> }

\* /(?:on|from|in)\s+([a-zA-Z0-9_]+)\s+(?:subreddit)?/i matched at index k
\* with preposition w: the index and the length of the capture, <<0, 0>> when
\* there is no match.  The greedy runs leave nothing to backtrack into: the
\* name must begin right after the spaces and a space must follow the name.
PrepositionMatchAt(question, k, w) ==
  IF ~MatchesAtNoCase(question, k, w) THEN <<0, 0>>
  ELSE LET p == k + Len(w)
           spaces == RunLength(question, p, SpaceChars)
           n == RunLength(question, p + spaces, WordChars)
       IN IF /\ spaces >= 1 /\ n >= 1
             /\ p + spaces + n <= Len(question)
             /\ IsSpace(question[p + spaces + n])
          THEN <<p + spaces, n>>
          ELSE <<0, 0>>

MatchPreposition(question) ==
  LET starts == {k \in 1..Len(question) :
                   \E w \in Prepositions : PrepositionMatchAt(question, k, w)[1] > 0}
  IN IF starts = {} THEN Null
     ELSE LET k == Leftmost(starts)
              w == CHOOSE w \in Prepositions : PrepositionMatchAt(question, k, w)[1] > 0
              m == PrepositionMatchAt(question, k, w)
          IN Sub(question, m[1], m[2])

\* /subreddit\s+([a-zA-Z0-9_]+)/i
SubredditWord == <<"s", "u", "b", "r", "e", "d", "d", "i", "t">>
SubredditWordMatchAt(question, k) ==
  IF ~MatchesAtNoCase(question, k, SubredditWord) THEN <<0, 0>>
  ELSE LET p == k + Len(SubredditWord)
           spaces == RunLength(question, p, SpaceChars)
           n == RunLength(question, p + spaces, WordChars)
       IN IF spaces >= 1 /\ n >= 1 THEN <<p + spaces, n>> ELSE <<0, 0>>

MatchSubredditWord(question) ==
  LET starts == {k \in 1..Len(question) : SubredditWordMatchAt(question, k)[1] > 0}
  IN IF starts = {} THEN Null
     ELSE LET m == SubredditWordMatchAt(question, Leftmost(starts))
          IN Sub(question, m[1], m[2])

\* ExtractSubreddit mutated: the on/from/in pattern is tried before r/.
ExtractSubredditPrepositionFirstMutant(question) ==
  IF MatchPreposition(question) # Null THEN MatchPreposition(question)
  ELSE IF MatchSubredditMarker(question) # Null THEN MatchSubredditMarker(question)
  ELSE MatchSubredditWord(question)

\* parseQuestion: the loop over subredditPatterns; the first pattern that
\* matches gives the subreddit.
ExtractSubreddit(question) ==
  IF MatchSubredditMarker(question) # Null THEN MatchSubredditMarker(question)
  ELSE IF MatchPreposition(question) # Null THEN MatchPreposition(question)
  ELSE MatchSubredditWord(question)

\* question.match(/[a-z0-9]{6,}/i)
HasLongToken(question) ==
  \E k \in 1..Len(question) : RunLength(question, k, AlnumChars) >= 6

\* The keywords of the query types, as lowerQ.includes tests them.
HotWords == { <<"h", "o", "t">>, <<"t", "r", "e", "n", "d", "i", "n", "g">>, <<"p", "o", "p", "u", "l", "a", "r">> }
NewWords == { <<"n", "e", "w">>, <<"l", "a", "t", "e", "s", "t">>, <<"r", "e", "c", "e", "n", "t">> }
TopWords == { <<"t", "o", "p">>, <<"b", "e", "s", "t">> }
SearchWords == { <<"s", "e", "a", "r", "c", "h">>, <<"f", "i", "n", "d">>, <<"l", "o", "o", "k", "i", "n", "g", " ", "f", "o", "r">> }
PostWord == <<"p", "o", "s", "t">>

IncludesAny(lowerQ, words) == \E w \in words : includes(lowerQ, w)

\* QueryType mutated: the keywords of new are tested before those of hot.
QueryTypeNewFirstMutant(question) ==
  LET lowerQ == toLowerCase(question)
  IN IF IncludesAny(lowerQ, NewWords) THEN "new"
     ELSE IF IncludesAny(lowerQ, HotWords) THEN "hot"
     ELSE IF IncludesAny(lowerQ, TopWords) THEN "top"
     ELSE IF IncludesAny(lowerQ, SearchWords) THEN "search"
     ELSE IF includes(lowerQ, PostWord) /\ HasLongToken(question) THEN "post"
     ELSE "hot"

\* parseQuestion: the query type.
QueryType(question) ==
  LET lowerQ == toLowerCase(question)
  IN IF IncludesAny(lowerQ, HotWords) THEN "hot"
     ELSE IF IncludesAny(lowerQ, NewWords) THEN "new"
     ELSE IF IncludesAny(lowerQ, TopWords) THEN "top"
     ELSE IF IncludesAny(lowerQ, SearchWords) THEN "search"
     ELSE IF includes(lowerQ, PostWord) /\ HasLongToken(question) THEN "post"
     ELSE "hot"

\* question.match(/comments\/([a-z0-9]+)/i)
CommentsPath == <<"c", "o", "m", "m", "e", "n", "t", "s", "/">>
MatchCommentsUrl(question) ==
  LET starts == {k \in 1..Len(question) :
                   /\ MatchesAtNoCase(question, k, CommentsPath)
                   /\ RunLength(question, k + Len(CommentsPath), AlnumChars) >= 1}
  IN IF starts = {} THEN Null
     ELSE LET p == Leftmost(starts) + Len(CommentsPath)
          IN Sub(question, p, RunLength(question, p, AlnumChars))

\* question.match(/\b([a-z0-9]{6,8})\b/i): a run of six to eight letters
\* and digits with a word boundary on both sides.
MatchPostId(question) ==
  LET starts == {k \in 1..Len(question) :
                   /\ k = 1 \/ ~IsWordChar(question[k - 1])
                   /\ RunLength(question, k, AlnumChars) \in 6..8
                   /\ RunLength(question, k, WordChars) = RunLength(question, k, AlnumChars)}
  IN IF starts = {} THEN Null
     ELSE LET k == Leftmost(starts)
          IN Sub(question, k, RunLength(question, k, AlnumChars))

\* parseQuestion of reddit-oracle.js: the fields askOracle branches on
\* first.  (keyword and limit are extracted after them and change neither.)
parseQuestionReddit(question) ==
  LET type == QueryType(question)
  IN [type |-> type,
      subreddit |-> ExtractSubreddit(question),
      postId |-> IF type # "post" THEN Null
                 ELSE IF MatchCommentsUrl(question) # Null THEN MatchCommentsUrl(question)
                 ELSE MatchPostId(question)]

\* ------------------------------- parseQuestion (oracle.js and part_000)
\* The decimal digits in order, and the number a digit string denotes.
DigitChars == <<"0", "1", "2", "3", "4", "5", "6", "7", "8", "9">>
DigitValue(c) == (CHOOSE k \in 1..10 : DigitChars[k] = c) - 1

RECURSIVE ParseNumber(_)
ParseNumber(digits) ==
  IF Len(digits) = 0 THEN 0
  ELSE 10 * ParseNumber(SubSeq(digits, 1, Len(digits) - 1)) + DigitValue(digits[Len(digits)])

\* n written with at least width digits (padStart(width, "0")).
RECURSIVE FormatNumber(_, _)
FormatNumber(n, width) ==
  IF width <= 1 /\ n < 10 THEN <<DigitChars[n + 1]>>
  ELSE FormatNumber(n \div 10, width - 1) \o <<DigitChars[(n % 10) + 1]>>

\* Calendar dates are records [y, m, d].
IsLeapYear(y) == (y % 4 = 0 /\ y % 100 # 0) \/ y % 400 = 0
DaysInMonth(y, m) ==
  IF m = 2 THEN (IF IsLeapYear(y) THEN 29 ELSE 28)
  ELSE IF m \in {4, 6, 9, 11} THEN 30
  ELSE 31

\* The date a Date object holds for year y, month m, day d with d in 1..31:
\* a day past the end of the month runs over into the next month.
MakeDate(y, m, d) ==
  IF d <= DaysInMonth(y, m) THEN [y |-> y, m |-> m, d |-> d]
  ELSE IF m = 12 THEN [y |-> y + 1, m |-> 1, d |-> d - DaysInMonth(y, m)]
  ELSE [y |-> y, m |-> m + 1, d |-> d - DaysInMonth(y, m)]

\* d.setDate(d.getDate() - 1)
PreviousDay(date) ==
  IF date.d > 1 THEN [date EXCEPT !.d = @ - 1]
  ELSE IF date.m > 1
  THEN [y |-> date.y, m |-> date.m - 1, d |-> DaysInMonth(date.y, date.m - 1)]
  ELSE [y |-> date.y - 1, m |-> 12, d |-> 31]

\* toISOString().split('T')[0]
FormatDate(date) ==
  FormatNumber(date.y, 4) \o <<"-">> \o FormatNumber(date.m, 2)
    \o <<"-">> \o FormatNumber(date.d, 2)

\* \d{4}-\d{2}-\d{2} occurs in s at index k.
IsoDateAt(s, k) ==
  /\ k >= 1 /\ k + 9 <= Len(s)
  /\ \A j \in {0, 1, 2, 3, 5, 6, 8, 9} : IsDigit(s[k + j])
  /\ s[k + 4] = "-" /\ s[k + 7] = "-"

\* /on (\w+ \d+,? \d{4})/i at index k: the length of the capture, 0 when
\* there is no match.  Each greedy run is followed by a character outside
\* its class, so there is nothing to backtrack into.
MonthDateAt(s, k) ==
  IF ~MatchesAtNoCase(s, k, <<"o", "n", " ">>) THEN 0
  ELSE LET p == k + 3
           word == RunLength(s, p, WordChars)
           q == p + word + 1
           day == IF q <= Len(s) + 1 THEN RunLength(s, q, Digits) ELSE 0
           comma == IF q + day <= Len(s) /\ s[q + day] = "," THEN 1 ELSE 0
           r == q + day + comma + 1
       IN IF /\ word >= 1 /\ p + word <= Len(s) /\ s[p + word] = " "
             /\ day >= 1
             /\ q + day + comma <= Len(s) /\ s[q + day + comma] = " "
             /\ r + 3 <= Len(s) /\ \A j \in r..(r + 3) : IsDigit(s[j])
          THEN r + 4 - p
          ELSE 0

\* The words of /(yesterday|today|last night)/i; no two begin with the same
\* letter.
RelativeTerms ==
  { <<"y", "e", "s", "t", "e", "r", "d", "a", "y">>,
    <<"t", "o", "d", "a", "y">>,
    <<"l", "a", "s", "t", " ", "n", "i", "g", "h", "t">> }

\* The first three letters of the month names, which the date parser of
\* the runtime recognizes a month by.
MonthPrefixes == <<<<"j", "a", "n">>, <<"f", "e", "b">>, <<"m", "a", "r">>, <<"a", "p", "r">>, <<"m", "a", "y">>, <<"j", "u", "n">>, <<"j", "u", "l">>, <<"a", "u", "g">>, <<"s", "e", "p">>, <<"o", "c", "t">>, <<"n", "o", "v">>, <<"d", "e", "c">>>>

\* new Date(text) for the texts the date patterns capture: the date, or
\* [y |-> 0, m |-> 0, d |-> 0] for an Invalid Date.  An ISO date is valid
\* with month 1..12 and day 1..31; so is "<month name> <day>[,] <year>"
\* (read as midnight of a process whose time zone is UTC); any other text,
\* a relative term in another letter case included, is invalid.
InvalidDate == [y |-> 0, m |-> 0, d |-> 0]
NewDate(text) ==
  IF Len(text) = 10 /\ IsoDateAt(text, 1)
  THEN LET y == ParseNumber(SubSeq(text, 1, 4))
           m == ParseNumber(SubSeq(text, 6, 7))
           d == ParseNumber(SubSeq(text, 9, 10))
       IN IF m \in 1..12 /\ d \in 1..31 THEN MakeDate(y, m, d) ELSE InvalidDate
  ELSE LET word == RunLength(text, 1, WordChars)
           months == {n \in 1..12 : word >= 3
                                     /\ MatchesAtNoCase(text, 1, MonthPrefixes[n])}
           day == IF word + 2 <= Len(text) + 1
                  THEN RunLength(text, word + 2, Digits) ELSE 0
       IN IF months = {} \/ day = 0 \/ Len(text) < word + 1 + day + 5
          THEN InvalidDate
          ELSE LET d == ParseNumber(SubSeq(text, word + 2, word + 1 + day))
                   y == ParseNumber(SubSeq(text, Len(text) - 3, Len(text)))
                   m == CHOOSE n \in months : TRUE
               IN IF d \in 1..31 THEN MakeDate(y, m, d) ELSE InvalidDate

\* parseQuestion: the loop over datePatterns, at the date now.  The result
\* is the date string, Null when no pattern matches.
ExtractDate(question, now) ==
  LET isoStarts == {k \in 1..Len(question) : IsoDateAt(question, k)}
      monthStarts == {k \in 1..Len(question) : MonthDateAt(question, k) > 0}
      relStarts == {k \in 1..Len(question) :
                      \E w \in RelativeTerms : MatchesAtNoCase(question, k, w)}
      Converted(text) ==
        IF text = <<"y", "e", "s", "t", "e", "r", "d", "a", "y">> \/ text = <<"l", "a", "s", "t", " ", "n", "i", "g", "h", "t">>
        THEN FormatDate(PreviousDay(now))
        ELSE IF text = <<"t", "o", "d", "a", "y">>
        THEN FormatDate(now)
        ELSE IF NewDate(text) # InvalidDate THEN FormatDate(NewDate(text))
        ELSE text
  IN IF isoStarts # {}
     THEN Converted(Sub(question, Leftmost(isoStarts), 10))
     ELSE IF monthStarts # {}
     THEN LET k == Leftmost(monthStarts)
          IN Converted(Sub(question, k + 3, MonthDateAt(question, k)))
     ELSE IF relStarts # {}
     THEN LET k == Leftmost(relStarts)
              w == CHOOSE w \in RelativeTerms : MatchesAtNoCase(question, k, w)
          IN Converted(Sub(question, k, Len(w)))
     ELSE Null

\* [A-Z][a-z]+ at index k, as one word of teamPattern: the index of its last
\* character, 0 when there is none.  The run of lower-case letters is taken
\* whole and must end at a word boundary (a shorter run ends inside the
\* word, where there is no boundary and no space).
CapitalizedWordEnd(s, k) ==
  IF k >= 1 /\ k <= Len(s) /\ IsUpper(s[k])
  THEN LET n == RunLength(s, k + 1, LowerChars)
       IN IF n >= 1 /\ (k + n = Len(s) \/ ~IsWordChar(s[k + n + 1]))
          THEN k + n ELSE 0
  ELSE 0

\* (?:\s+[A-Z][a-z]+)* from the end e of a word: the end of the last word
\* of the span.
RECURSIVE SpanEnd(_, _)
SpanEnd(s, e) ==
  LET spaces == RunLength(s, e + 1, SpaceChars)
      next == CapitalizedWordEnd(s, e + 1 + spaces)
  IN IF spaces >= 1 /\ next > 0 THEN SpanEnd(s, next) ELSE e

\* teamPattern.exec in a loop: the matches of
\* /\b([A-Z][a-z]+(?:\s+[A-Z][a-z]+)*)\b/g from index from on.
RECURSIVE TeamMatches(_, _)
TeamMatches(s, from) ==
  LET starts == {k \in from..Len(s) :
                   /\ k = 1 \/ ~IsWordChar(s[k - 1])
                   /\ CapitalizedWordEnd(s, k) > 0}
  IN IF starts = {} THEN <<>>
     ELSE LET k == Leftmost(starts)
              e == SpanEnd(s, CapitalizedWordEnd(s, k))
          IN <<SubSeq(s, k, e)>> \o TeamMatches(s, e + 1)

\* The question words that are no team names.
StopList ==
  { <<"W", "h", "o">>, <<"W", "h", "a", "t">>, <<"D", "i", "d">>,
    <<"T", "h", "e">>, <<"H", "o", "w">>, <<"W", "h", "e", "n">> }

\* Array.prototype.filter
RECURSIVE Filter(_, _)
Filter(seq, keep) ==
  IF seq = <<>> THEN <<>>
  ELSE (IF Head(seq) \in keep THEN <<>> ELSE <<Head(seq)>>) \o Filter(Tail(seq), keep)

\* parseQuestion of oracle.js and part_000 (the same text in both), called
\* at the date now.
parseQuestionSports(question, now) ==
  LET teams == Filter(TeamMatches(question, 1), StopList)
      date == ExtractDate(question, now)
  IN [team |-> IF Len(teams) >= 1 THEN teams[1] ELSE Null,
      opponent |-> IF Len(teams) >= 2 THEN teams[2] ELSE Null,
      date |-> IF date # Null THEN date ELSE FormatDate(now)]

\* TEAM_ALIASES: <<key, canonical name>>.
TEAM_ALIASES ==
  { <<<<"c", "e", "l", "t", "i", "c", "s">>,
      <<"B", "o", "s", "t", "o", "n", " ", "C", "e", "l", "t", "i", "c", "s">>>>,
    <<<<"l", "a", "k", "e", "r", "s">>,
      <<"L", "o", "s", " ", "A", "n", "g", "e", "l", "e", "s", " ", "L", "a", "k", "e", "r", "s">>>>,
    <<<<"w", "a", "r", "r", "i", "o", "r", "s">>,
      <<"G", "o", "l", "d", "e", "n", " ", "S", "t", "a", "t", "e", " ", "W", "a", "r", "r", "i", "o", "r", "s">>>>,
    <<<<"b", "u", "l", "l", "s">>,
      <<"C", "h", "i", "c", "a", "g", "o", " ", "B", "u", "l", "l", "s">>>>,
    <<<<"h", "e", "a", "t">>,
      <<"M", "i", "a", "m", "i", " ", "H", "e", "a", "t">>>>,
    <<<<"n", "e", "t", "s">>,
      <<"B", "r", "o", "o", "k", "l", "y", "n", " ", "N", "e", "t", "s">>>>,
    <<<<"k", "n", "i", "c", "k", "s">>,
      <<"N", "e", "w", " ", "Y", "o", "r", "k", " ", "K", "n", "i", "c", "k", "s">>>>,
    <<<<"s", "i", "x", "e", "r", "s">>,
      <<"P", "h", "i", "l", "a", "d", "e", "l", "p", "h", "i", "a", " ", "7", "6", "e", "r", "s">>>>,
    <<<<"7", "6", "e", "r", "s">>,
      <<"P", "h", "i", "l", "a", "d", "e", "l", "p", "h", "i", "a", " ", "7", "6", "e", "r", "s">>>>,
    <<<<"b", "u", "c", "k", "s">>,
      <<"M", "i", "l", "w", "a", "u", "k", "e", "e", " ", "B", "u", "c", "k", "s">>>>,
    <<<<"s", "u", "n", "s">>,
      <<"P", "h", "o", "e", "n", "i", "x", " ", "S", "u", "n", "s">>>>,
    <<<<"m", "a", "v", "s">>,
      <<"D", "a", "l", "l", "a", "s", " ", "M", "a", "v", "e", "r", "i", "c", "k", "s">>>>,
    <<<<"m", "a", "v", "e", "r", "i", "c", "k", "s">>,
      <<"D", "a", "l", "l", "a", "s", " ", "M", "a", "v", "e", "r", "i", "c", "k", "s">>>>,
    <<<<"n", "u", "g", "g", "e", "t", "s">>,
      <<"D", "e", "n", "v", "e", "r", " ", "N", "u", "g", "g", "e", "t", "s">>>>,
    <<<<"c", "l", "i", "p", "p", "e", "r", "s">>,
      <<"L", "o", "s", " ", "A", "n", "g", "e", "l", "e", "s", " ", "C", "l", "i", "p", "p", "e", "r", "s">>>>,
    <<<<"r", "o", "c", "k", "e", "t", "s">>,
      <<"H", "o", "u", "s", "t", "o", "n", " ", "R", "o", "c", "k", "e", "t", "s">>>>,
    <<<<"s", "p", "u", "r", "s">>,
      <<"S", "a", "n", " ", "A", "n", "t", "o", "n", "i", "o", " ", "S", "p", "u", "r", "s">>>>,
    <<<<"c", "h", "i", "e", "f", "s">>,
      <<"K", "a", "n", "s", "a", "s", " ", "C", "i", "t", "y", " ", "C", "h", "i", "e", "f", "s">>>>,
    <<<<"e", "a", "g", "l", "e", "s">>,
      <<"P", "h", "i", "l", "a", "d", "e", "l", "p", "h", "i", "a", " ", "E", "a", "g", "l", "e", "s">>>>,
    <<<<"c", "o", "w", "b", "o", "y", "s">>,
      <<"D", "a", "l", "l", "a", "s", " ", "C", "o", "w", "b", "o", "y", "s">>>>,
    <<<<"p", "a", "c", "k", "e", "r", "s">>,
      <<"G", "r", "e", "e", "n", " ", "B", "a", "y", " ", "P", "a", "c", "k", "e", "r", "s">>>>,
    <<<<"n", "i", "n", "e", "r", "s">>,
      <<"S", "a", "n", " ", "F", "r", "a", "n", "c", "i", "s", "c", "o", " ", "4", "9", "e", "r", "s">>>>,
    <<<<"4", "9", "e", "r", "s">>,
      <<"S", "a", "n", " ", "F", "r", "a", "n", "c", "i", "s", "c", "o", " ", "4", "9", "e", "r", "s">>>>,
    <<<<"b", "i", "l", "l", "s">>,
      <<"B", "u", "f", "f", "a", "l", "o", " ", "B", "i", "l", "l", "s">>>>,
    <<<<"r", "a", "v", "e", "n", "s">>,
      <<"B", "a", "l", "t", "i", "m", "o", "r", "e", " ", "R", "a", "v", "e", "n", "s">>>>,
    <<<<"b", "e", "n", "g", "a", "l", "s">>,
      <<"C", "i", "n", "c", "i", "n", "n", "a", "t", "i", " ", "B", "e", "n", "g", "a", "l", "s">>>>,
    <<<<"y", "a", "n", "k", "e", "e", "s">>,
      <<"N", "e", "w", " ", "Y", "o", "r", "k", " ", "Y", "a", "n", "k", "e", "e", "s">>>>,
    <<<<"d", "o", "d", "g", "e", "r", "s">>,
      <<"L", "o", "s", " ", "A", "n", "g", "e", "l", "e", "s", " ", "D", "o", "d", "g", "e", "r", "s">>>>,
    <<<<"r", "e", "d", " ", "s", "o", "x">>,
      <<"B", "o", "s", "t", "o", "n", " ", "R", "e", "d", " ", "S", "o", "x">>>>,
    <<<<"c", "u", "b", "s">>,
      <<"C", "h", "i", "c", "a", "g", "o", " ", "C", "u", "b", "s">>>>,
    <<<<"b", "r", "u", "i", "n", "s">>,
      <<"B", "o", "s", "t", "o", "n", " ", "B", "r", "u", "i", "n", "s">>>>,
    <<<<"r", "a", "n", "g", "e", "r", "s">>,
      <<"N", "e", "w", " ", "Y", "o", "r", "k", " ", "R", "a", "n", "g", "e", "r", "s">>>>,
    <<<<"m", "a", "p", "l", "e", " ", "l", "e", "a", "f", "s">>,
      <<"T", "o", "r", "o", "n", "t", "o", " ", "M", "a", "p", "l", "e", " ", "L", "e", "a", "f", "s">>>>,
    <<<<"c", "a", "n", "a", "d", "i", "e", "n", "s">>,
      <<"M", "o", "n", "t", "r", "e", "a", "l", " ", "C", "a", "n", "a", "d", "i", "e", "n", "s">>>> }

\* What a property lookup finds on the prototype of the alias object for a
\* key the table does not hold: the members of Object.prototype whose
\* names are lower-case.  They are objects, no strings.
InheritedMembers ==
  { <<<<"c", "o", "n", "s", "t", "r", "u", "c", "t", "o", "r">>, <<"[Function: Object]">>>>,
    <<<<"_", "_", "p", "r", "o", "t", "o", "_", "_">>, <<"[Object: null prototype] {}">>>> }

\* String.prototype.trim
Trim(s) ==
  LET keep == {k \in 1..Len(s) : ~IsSpace(s[k])}
  IN IF keep = {} THEN <<>>
     ELSE SubSeq(s, Leftmost(keep), CHOOSE k \in keep : \A j \in keep : j <= k)

\* normalizeTeamName mutated: the alias table is not consulted.
NormalizeTeamNameIdentityMutant(teamName) == teamName

\* normalizeTeamName
normalizeTeamName(teamName) ==
  IF teamName = Null THEN teamName
  ELSE LET lower == Trim(toLowerCase(teamName))
           found == {a \in TEAM_ALIASES \cup InheritedMembers : a[1] = lower}
       IN IF found # {} THEN (CHOOSE a \in found : TRUE)[2] ELSE teamName

\* askOracle of a sports module from parseQuestion up to the call of
\* verifyResult, the safety pre-check (part_000) having passed: the parsed
\* query and the team name querySportsDB is called with (Null when the
\* adapter is not called).  module is "oracle" (oracle.js) or "safe"
\* (part_000), which alone normalizes the names.
askOracleSportsQuery(module, question, now) ==
  LET parsed == parseQuestionSports(question, now)
      query == IF module = "safe"
               THEN [parsed EXCEPT !.team = normalizeTeamName(@),
                                   !.opponent = normalizeTeamName(@)]
               ELSE parsed
  IN [parsed |-> parsed, query |-> query, adapterTeam |-> query.team]

\* askOracle (reddit-oracle.js) after the adapter answered.
RedditResult(q, data) ==
  IF data # "ok"
  THEN Result(FALSE, 0, data, FALSE)
  ELSE Result(TRUE,
              IF q = "search" THEN RedditSearchConfidence ELSE RedditBaseConfidence,
              "none", FALSE)

\* OpponentMatch mutated: the opponent is compared without lower-casing.
OpponentMatchCaseSensitiveMutant(opponent, homeTeam, awayTeam) ==
  IF opponent # Null
  THEN includes(homeTeam, opponent) \/ includes(awayTeam, opponent)
  ELSE TRUE

\* verifyResult: opponentMatch, from the opponent of the query and the two
\* team names of the event.
OpponentMatch(opponent, homeTeam, awayTeam) ==
  IF opponent # Null
  THEN LET oppLower == toLowerCase(opponent)
       IN \/ includes(toLowerCase(homeTeam), oppLower)
          \/ includes(toLowerCase(awayTeam), oppLower)
  ELSE TRUE

\* verifyResult mutated: the error branch keeps the base confidence.
VerifyResultErrorConfidenceMutant(q, error, oppInTeams) ==
  IF error # "none"
  THEN Result(FALSE, SportsBaseConfidence, error, FALSE)
  ELSE LET opponentMatch == IF q = "team_opponent" THEN oppInTeams ELSE TRUE
           confidence == IF opponentMatch /\ q = "team_opponent"
                         THEN SportsOpponentConfidence
                         ELSE SportsBaseConfidence
       IN Result(TRUE, confidence, "none", FALSE)

\* verifyResult: error is querySportsDB's error ("none" for an event),
\* oppInTeams whether the opponent is a substring of a team of the event.
verifyResult(q, error, oppInTeams) ==
  IF error # "none"
  THEN Result(FALSE, 0, error, FALSE)
  ELSE LET opponentMatch == IF q = "team_opponent" THEN oppInTeams ELSE TRUE
           confidence == IF opponentMatch /\ q = "team_opponent"
                         THEN SportsOpponentConfidence
                         ELSE SportsBaseConfidence
       IN Result(TRUE, confidence, "none", FALSE)

\* askOracle (part_000): the floor applied to a verified result.
Floored(result) ==
  IF result.flag /\ result.confidence > 0
  THEN [result EXCEPT !.confidence = applyConfidenceFloor(@)]
  ELSE result

\* ------------------------------------------------------------------ state
VARIABLES
  req,        \* per slot: the request being handled (handleOracleRequest's locals)
  file,       \* per stats domain: the stats document on disk
  clock,      \* wall clock: [day, hour]
  arrivals,   \* requests arrived so far
  recorded,   \* per stats domain: every outcome logQuery recorded, newest first
  pace,       \* reddit-oracle.js pacing: the millisecond clock, lastRequestTime,
              \* the pending timers and the times of the provider calls made
  call,       \* one call of a function on its own: [fn, done, in, out]
  account     \* the credential's account at the payment service: the credits
              \* it started with, its balance, and the responses that carried
              \* an oracle result so far

vars == <<req, file, clock, arrivals, recorded, pace, call, account>>

\* The payment service is not looked into: verify and settle answer as
\* they will.
NoAccount == [initial |-> 0, balance |-> 0, results |-> 0]

\* No function is called on its own.
NoCall == [fn |-> "none", done |-> FALSE, in |-> "none", out |-> "none"]

\* Before any adapter call: lastRequestTime = 0 and Date.now() is at least
\* requestDelayMs, no timer is pending, no provider call was made.
NoTimer == 0 - 1
PaceInit ==
  [now |-> RequestDelay, lastRequestTime |-> 0,
   wake |-> [i \in Slots |-> NoTimer], callTimes |-> <<>>]

MissingFile == [kind |-> "missing", doc |-> ZeroStats(0)]

\* A slot no request has used yet.
IdleReq ==
  [ep |-> "none", pc |-> "idle", q |-> "none", hasToken |-> FALSE,
   verifyCalls |-> 0, verifyOutcome |-> "none",
   oracleCalls |-> 0, checked |-> "unchecked", adapterCalls |-> 0, httpCalls |-> 0,
   logged |-> 0, hasResult |-> FALSE, returned |-> NoResult, oracleResult |-> NoResult,
   settleCalls |-> 0, settleOutcome |-> "none", status |-> 0, bodyError |-> "none", purchaseUrl |-> FALSE,
   trace |-> <<>>]

\* The stats document after total recorded outcomes, of which the latest
\* nFail are failures and the others successes: logQuery applied to f for
\* the outcomes lo..hi of that history, in order (the range is halved to
\* keep the evaluation shallow).
RECURSIVE Replay(_, _, _, _, _, _)
Replay(d, f, lo, hi, total, nFail) ==
  IF lo > hi THEN f
  ELSE IF lo = hi
  THEN LogQuery(d, f,
                Result(lo <= total - nFail,
                       IF lo <= total - nFail THEN RedditBaseConfidence ELSE 0,
                       "none", FALSE),
                [day |-> 0, hour |-> 0])
  ELSE LET mid == (lo + hi) \div 2
           g == Replay(d, f, lo, mid, total, nFail)
       IN IF g.kind = "json"
          THEN Replay(d, g, mid + 1, hi, total, nFail)
          ELSE g

\* The outcomes of that history, newest first.
ReplayRecorded(total, nFail) == [j \in 1..total |-> j > nFail]

\* The stats documents a process can find on disk when it starts, per
\* domain <<queries recorded, how many of the latest failed>>: none, one
\* failure short of tripping the breaker, one query short of the daily quota
\* (for reddit, also one failure short of tripping the breaker).
Scenarios ==
  { [reddit |-> <<0, 0>>, safe |-> <<0, 0>>],
    [reddit |-> <<MaxConsecutiveErrors - 1, MaxConsecutiveErrors - 1>>, safe |-> <<0, 0>>],
    [reddit |-> <<0, 0>>, safe |-> <<MaxConsecutiveErrors - 1, MaxConsecutiveErrors - 1>>],
    [reddit |-> <<MaxQueriesPerDayReddit - 1, MaxConsecutiveErrors - 1>>,
     safe |-> <<0, 0>>],
    [reddit |-> <<0, 0>>, safe |-> <<MaxQueriesPerDaySports - 1, 0>>] }

\* Stats files the program did not write: content that is no JSON, and
\* JSON that is no stats document (the object {}, as the empty function).
UnparseableFile == [kind |-> "unparseable", doc |-> ZeroStats(0)]
OtherJsonFile == [kind |-> "other_json", doc |-> <<>>]
DamagedScenarios ==
  { [reddit |-> UnparseableFile, safe |-> OtherJsonFile],
    [reddit |-> OtherJsonFile, safe |-> UnparseableFile] }

Init ==
  /\ req = [i \in Slots |-> IdleReq]
  /\ clock = [day |-> 0, hour |-> 0]
  /\ arrivals = 0
  /\ pace = PaceInit
  /\ call = NoCall
  /\ account = NoAccount
  /\ \/ \E sc \in Scenarios :
          /\ file = [d \in StatsDomains |->
                       Replay(d, MissingFile, 1, sc[d][1], sc[d][1], sc[d][2])]
          /\ recorded = [d \in StatsDomains |-> ReplayRecorded(sc[d][1], sc[d][2])]
     \/ \E sc \in DamagedScenarios :
          /\ file = sc
          /\ recorded = [d \in StatsDomains |-> <<>>]

\* ------------------------------------------------- handleOracleRequest
\* sendJSON(res, status, {error, purchaseUrl?}) and return.
Respond(r, status, error, purchaseUrl) ==
  [r EXCEPT !.pc = "done", !.status = status, !.bodyError = error,
            !.purchaseUrl = purchaseUrl, !.trace = Append(@, "response")]

\* IssueSettle mutated: only a successful result is settled; a failed one is
\* sent at once.
IssueSettleOnlyOnSuccessMutant(r, result) ==
  IF result.flag
  THEN [r EXCEPT !.hasResult = TRUE, !.returned = result, !.oracleResult = result,
                 !.settleCalls = @ + 1, !.pc = "settling",
                 !.trace = Append(@, "settle")]
  ELSE [r EXCEPT !.hasResult = TRUE, !.returned = result, !.oracleResult = result,
                 !.status = 200, !.pc = "done",
                 !.trace = Append(@, "response")]

\* handleOracleRequest from `oracleResult = await oracle.askOracle(...)` on,
\* when askOracle returned result: the settle call is issued.  (The
\* meta-evolution logging in between reads the result and keeps its own
\* in-memory patterns, which nothing here reads.)
IssueSettle(r, result) ==
  [r EXCEPT !.hasResult = TRUE, !.returned = result, !.oracleResult = result,
            !.settleCalls = @ + 1, !.pc = "settling",
            !.trace = Append(@, "settle")]

\* The command line of part_000: askOracle(question).then(print).
PrintResult(r, result) ==
  [r EXCEPT !.hasResult = TRUE, !.returned = result, !.oracleResult = result,
            !.pc = "done"]

\* askOracle returns result to its caller.
Return(r, result) ==
  IF IsPaid(r.ep) THEN IssueSettle(r, result) ELSE PrintResult(r, result)

\* Throw mutated: the handler's catch settles the credit before it answers
\* 500.
ThrowSettlesMutant(r) ==
  IF IsPaid(r.ep)
  THEN Respond([r EXCEPT !.settleCalls = @ + 1, !.settleOutcome = "ok",
                         !.trace = Append(@, "settle")],
               500, "oracle_error", FALSE)
  ELSE [r EXCEPT !.pc = "done"]

\* askOracle throws: the handler's catch answers 500; the command line
\* prints the error.
Throw(r) ==
  IF IsPaid(r.ep) THEN Respond(r, 500, "oracle_error", FALSE)
  ELSE [r EXCEPT !.pc = "done"]

Step(r, name) == [r EXCEPT !.trace = Append(@, name)]

\* LogAndReturn mutated: logQuery is called a second time before the
\* result is returned.
LogAndReturnTwiceMutant(i, d, r, result) ==
  /\ file' = [file EXCEPT ![d] = LogQuery(d, LogQuery(d, @, result, clock), result, clock)]
  /\ recorded' = [recorded EXCEPT ![d] = <<result.flag, result.flag>> \o @]
  /\ req' = [req EXCEPT ![i] =
               Return([Step(r, "log") EXCEPT !.logged = @ + 2], result)]

\* askOracle: logQuery(result); return result.
LogAndReturn(i, d, r, result) ==
  /\ file' = [file EXCEPT ![d] = LogQuery(d, @, result, clock)]
  /\ recorded' = [recorded EXCEPT ![d] = <<result.flag>> \o @]
  /\ req' = [req EXCEPT ![i] =
               Return([Step(r, "log") EXCEPT !.logged = @ + 1], result)]

\* askOracle of oracle.js up to its first await: parse, then the first
\* provider request of querySportsDB.
AskOracleSports(i, r, q) ==
  LET r1 == [r EXCEPT !.oracleCalls = @ + 1, !.q = q]
  IN /\ UNCHANGED <<file, recorded>>
     /\ IF q = "non_string"
        THEN req' = [req EXCEPT ![i] = Throw(r1)]
        ELSE IF q = "no_team"
        THEN req' = [req EXCEPT ![i] =
               Return(Step(Step(r1, "parse"), "score"),
                      ParseErrorResult("could_not_parse_team_name"))]
        ELSE req' = [req EXCEPT ![i] =
               [Step(Step(r1, "parse"), "adapter") EXCEPT
                  !.adapterCalls = @ + 1, !.httpCalls = @ + 1, !.pc = "fetchTeam"]]

\* AskOracleSafe mutated: a tripped breaker lets the call through (only
\* the quota rejects).
AskOracleSafeBreakerOpenMutant(i, r, q) ==
  LET check == checkSafetyLimits("safe", file["safe"], clock)
      r1 == [Step(r, "check") EXCEPT
               !.oracleCalls = @ + 1, !.q = q, !.checked = check.reason]
  IN IF check = Thrown
     THEN /\ req' = [req EXCEPT ![i] = Throw(r1)]
          /\ UNCHANGED <<file, recorded>>
     ELSE IF ~check.safe /\ check.reason # "circuit_breaker_tripped"
     THEN /\ req' = [req EXCEPT ![i] = Return(Step(r1, "score"), SafetyResult(check))]
          /\ UNCHANGED <<file, recorded>>
     ELSE IF q = "non_string"
     THEN /\ req' = [req EXCEPT ![i] = Throw(r1)]
          /\ UNCHANGED <<file, recorded>>
     ELSE IF q = "no_team"
     THEN LogAndReturn(i, "safe", Step(Step(r1, "parse"), "score"),
                       ParseErrorResult("could_not_parse_team_name"))
     ELSE /\ req' = [req EXCEPT ![i] =
               [Step(Step(r1, "parse"), "adapter") EXCEPT
                  !.adapterCalls = @ + 1, !.httpCalls = @ + 1, !.pc = "fetchTeam"]]
          /\ UNCHANGED <<file, recorded>>

\* askOracle of part_000 up to its first await: safety pre-check, parse,
\* normalize, then the first provider request of querySportsDB.
AskOracleSafe(i, r, q) ==
  LET check == checkSafetyLimits("safe", file["safe"], clock)
      r1 == [Step(r, "check") EXCEPT
               !.oracleCalls = @ + 1, !.q = q, !.checked = check.reason]
  IN IF check = Thrown
     THEN /\ req' = [req EXCEPT ![i] = Throw(r1)]
          /\ UNCHANGED <<file, recorded>>
     ELSE IF ~check.safe
     THEN /\ req' = [req EXCEPT ![i] = Return(Step(r1, "score"), SafetyResult(check))]
          /\ UNCHANGED <<file, recorded>>
     ELSE IF q = "non_string"
     THEN /\ req' = [req EXCEPT ![i] = Throw(r1)]
          /\ UNCHANGED <<file, recorded>>
     ELSE IF q = "no_team"
     THEN LogAndReturn(i, "safe", Step(Step(r1, "parse"), "score"),
                       ParseErrorResult("could_not_parse_team_name"))
     ELSE /\ req' = [req EXCEPT ![i] =
               [Step(Step(r1, "parse"), "adapter") EXCEPT
                  !.adapterCalls = @ + 1, !.httpCalls = @ + 1, !.pc = "fetchTeam"]]
          /\ UNCHANGED <<file, recorded>>

\* AskOracleReddit mutated: a rejection by the pre-check is logged like any
\* other result.
AskOracleRedditLogsRejectionMutant(i, r, q) ==
  LET check == checkSafetyLimits("reddit", file["reddit"], clock)
      r1 == [Step(r, "check") EXCEPT
               !.oracleCalls = @ + 1, !.q = q, !.checked = check.reason]
  IN IF check = Thrown
     THEN /\ req' = [req EXCEPT ![i] = Throw(r1)]
          /\ UNCHANGED <<file, recorded>>
     ELSE IF ~check.safe
     THEN LogAndReturn(i, "reddit", Step(r1, "score"), SafetyResult(check))
     ELSE IF q = "non_string"
     THEN /\ req' = [req EXCEPT ![i] = Throw(r1)]
          /\ UNCHANGED <<file, recorded>>
     ELSE IF RedditParseError(q) # "none"
     THEN LogAndReturn(i, "reddit", Step(Step(r1, "parse"), "score"),
                       ParseErrorResult(RedditParseError(q)))
     ELSE /\ req' = [req EXCEPT ![i] =
               [Step(Step(r1, "parse"), "adapter") EXCEPT
                  !.adapterCalls = @ + 1, !.pc = "pacing"]]
          /\ UNCHANGED <<file, recorded>>

\* askOracle of reddit-oracle.js up to its first await: safety pre-check,
\* parse, then the adapter function, which first awaits enforceRateLimit.
AskOracleReddit(i, r, q) ==
  LET check == checkSafetyLimits("reddit", file["reddit"], clock)
      r1 == [Step(r, "check") EXCEPT
               !.oracleCalls = @ + 1, !.q = q, !.checked = check.reason]
  IN IF check = Thrown
     THEN /\ req' = [req EXCEPT ![i] = Throw(r1)]
          /\ UNCHANGED <<file, recorded>>
     ELSE IF ~check.safe
     THEN /\ req' = [req EXCEPT ![i] = Return(Step(r1, "score"), SafetyResult(check))]
          /\ UNCHANGED <<file, recorded>>
     ELSE IF q = "non_string"
     THEN /\ req' = [req EXCEPT ![i] = Throw(r1)]
          /\ UNCHANGED <<file, recorded>>
     ELSE IF RedditParseError(q) # "none"
     THEN LogAndReturn(i, "reddit", Step(Step(r1, "parse"), "score"),
                       ParseErrorResult(RedditParseError(q)))
     ELSE /\ req' = [req EXCEPT ![i] =
               [Step(Step(r1, "parse"), "adapter") EXCEPT
                  !.adapterCalls = @ + 1, !.pc = "pacing"]]
          /\ UNCHANGED <<file, recorded>>

\* oracle.askOracle(body.question), by the module the entry point loads.
AskOracle(i, r) ==
  \E q \in Questions(r.ep) :
    CASE OracleOf(r.ep) = "oracle" -> AskOracleSports(i, r, q)
      [] OracleOf(r.ep) = "reddit" -> AskOracleReddit(i, r, q)
      [] OTHER -> AskOracleSafe(i, r, q)

\* ---------------------------------------------------------------- actions
\* A finished request is dropped (Forget) before anything else runs: nothing
\* reads it, so the order of the drop changes no other state.
NoneDone == \A j \in Slots : req[j].pc # "done"

\* A request arrives.  On a paid endpoint handleOracleRequest reads the
\* credential header and answers 402 when there is none, else awaits the
\* body.  On the command line of part_000 askOracle starts at once.
Arrive(i) ==
  /\ NoneDone
  /\ UNCHANGED <<pace, call, account>>
  /\ req[i].pc = "idle"
  /\ arrivals < MaxArrivals
  /\ arrivals' = arrivals + 1
  /\ UNCHANGED clock
  /\ \E ep \in Endpoints, tok \in BOOLEAN :
       LET r0 == [IdleReq EXCEPT !.ep = ep, !.hasToken = tok]
       IN IF ~IsPaid(ep)
          THEN tok /\ AskOracle(i, r0)
          ELSE /\ UNCHANGED <<file, recorded>>
               /\ IF ~tok
                  THEN req' = [req EXCEPT ![i] =
                                 Respond(r0, 402, "payment_required", TRUE)]
                  ELSE req' = [req EXCEPT ![i] = [r0 EXCEPT !.pc = "body"]]

\* parseBody resolved or rejected: 400 on invalid JSON or a missing
\* question, else verifyPermissions is called.
BodyParsed(i) ==
  /\ NoneDone
  /\ UNCHANGED <<pace, call, account>>
  /\ req[i].pc = "body"
  /\ UNCHANGED <<file, clock, arrivals, recorded>>
  /\ \E body \in {"invalid_json", "missing_question", "question"} :
       IF body # "question"
       THEN req' = [req EXCEPT ![i] = Respond(@, 400, body, FALSE)]
       ELSE req' = [req EXCEPT ![i] =
              [Step(@, "verify") EXCEPT !.verifyCalls = @ + 1, !.pc = "verifying"]]

\* VerifyReturns mutated: the isValid test is dropped.
VerifyReturnsNoValidityMutant(i) ==
  /\ NoneDone
  /\ UNCHANGED <<pace, call, account>>
  /\ req[i].pc = "verifying"
  /\ UNCHANGED <<clock, arrivals>>
  /\ \E v \in {"valid", "invalid", "throws"} :
       LET r == [req[i] EXCEPT !.verifyOutcome = v]
       IN IF v = "throws"
          THEN /\ req' = [req EXCEPT ![i] = Respond(r, 401, "verification_failed", TRUE)]
               /\ UNCHANGED <<file, recorded>>
          ELSE AskOracle(i, r)

\* VerifyReturns mutated: the catch block of the verify call does not return.
VerifyReturnsThrowProceedsMutant(i) ==
  /\ NoneDone
  /\ UNCHANGED <<pace, call, account>>
  /\ req[i].pc = "verifying"
  /\ UNCHANGED <<clock, arrivals>>
  /\ \E v \in {"valid", "invalid", "throws"} :
       LET r == [req[i] EXCEPT !.verifyOutcome = v]
       IN IF v = "invalid"
          THEN /\ req' = [req EXCEPT ![i] = Respond(r, 401, "insufficient_credits", TRUE)]
               /\ UNCHANGED <<file, recorded>>
          ELSE AskOracle(i, r)

\* VerifyReturns mutated: a verify call that throws is answered like an
\* invalid credential.
VerifyReturnsThrowAsInvalidMutant(i) ==
  /\ NoneDone
  /\ UNCHANGED <<pace, call, account>>
  /\ req[i].pc = "verifying"
  /\ UNCHANGED <<clock, arrivals>>
  /\ \E v \in {"valid", "invalid", "throws"} :
       LET r == [req[i] EXCEPT !.verifyOutcome = v]
       IN IF v \in {"invalid", "throws"}
          THEN /\ req' = [req EXCEPT ![i] = Respond(r, 401, "insufficient_credits", TRUE)]
               /\ UNCHANGED <<file, recorded>>
          ELSE AskOracle(i, r)

\* verifyPermissions resolved or threw: 401 unless isValid, else the oracle
\* is asked.
VerifyReturns(i) ==
  /\ NoneDone
  /\ UNCHANGED <<pace, call, account>>
  /\ req[i].pc = "verifying"
  /\ UNCHANGED <<clock, arrivals>>
  /\ \E v \in {"valid", "invalid", "throws"} :
       LET r == [req[i] EXCEPT !.verifyOutcome = v]
       IN IF v = "invalid"
          THEN /\ req' = [req EXCEPT ![i] = Respond(r, 401, "insufficient_credits", TRUE)]
               /\ UNCHANGED <<file, recorded>>
          ELSE IF v = "throws"
          THEN /\ req' = [req EXCEPT ![i] = Respond(r, 401, "verification_failed", TRUE)]
               /\ UNCHANGED <<file, recorded>>
          ELSE AskOracle(i, r)

\* querySportsDB after the team search answered: an error value, or the
\* second provider request (the team's last events).
FetchTeamReturns(i) ==
  /\ NoneDone
  /\ UNCHANGED <<pace, call, account>>
  /\ req[i].pc = "fetchTeam"
  /\ UNCHANGED <<clock, arrivals>>
  /\ \E out \in TeamSearchAnswers :
       IF out = "teams"
       THEN /\ req' = [req EXCEPT ![i] =
                         [@ EXCEPT !.httpCalls = @ + 1, !.pc = "fetchEvents"]]
            /\ UNCHANGED <<file, recorded>>
       ELSE LET result == verifyResult(req[i].q, out, FALSE)
                r == Step(req[i], "score")
            IN IF OracleOf(req[i].ep) = "safe"
               THEN LogAndReturn(i, "safe", r, Floored(result))
               ELSE /\ req' = [req EXCEPT ![i] = Return(r, result)]
                    /\ UNCHANGED <<file, recorded>>

\* querySportsDB after the events answered, then verifyResult, and in
\* part_000 the confidence floor and logQuery.
FetchEventsReturns(i) ==
  /\ NoneDone
  /\ UNCHANGED <<pace, call, account>>
  /\ req[i].pc = "fetchEvents"
  /\ UNCHANGED <<clock, arrivals>>
  /\ \E out \in EventsAnswers,
        oppInTeams \in BOOLEAN :
       LET result == verifyResult(req[i].q, out, oppInTeams)
           r == Step(req[i], "score")
       IN IF OracleOf(req[i].ep) = "safe"
          THEN LogAndReturn(i, "safe", r, Floored(result))
          ELSE /\ req' = [req EXCEPT ![i] = Return(r, result)]
               /\ UNCHANGED <<file, recorded>>

\* enforceRateLimit resolved: the adapter issues its provider request.
PacingDone(i) ==
  /\ NoneDone
  /\ UNCHANGED <<pace, call, account>>
  /\ req[i].pc = "pacing"
  /\ UNCHANGED <<file, clock, arrivals, recorded>>
  /\ req' = [req EXCEPT ![i] = [@ EXCEPT !.httpCalls = @ + 1, !.pc = "fetching"]]

\* RedditReturns mutated: a provider request that failed is issued once
\* more before the error is returned.
RedditReturnsRetryMutant(i) ==
  /\ NoneDone
  /\ UNCHANGED <<pace, call, account>>
  /\ req[i].pc = "fetching"
  /\ UNCHANGED <<clock, arrivals>>
  /\ \E data \in RedditData(req[i].q) :
       IF data # "ok" /\ req[i].httpCalls < 2
       THEN /\ req' = [req EXCEPT ![i] = [@ EXCEPT !.httpCalls = @ + 1]]
            /\ UNCHANGED <<file, recorded>>
       ELSE LogAndReturn(i, "reddit", Step(req[i], "score"), RedditResult(req[i].q, data))

\* The Reddit adapter returned: askOracle builds the result, logs it and
\* returns it.
RedditReturns(i) ==
  /\ NoneDone
  /\ UNCHANGED <<pace, call, account>>
  /\ req[i].pc = "fetching"
  /\ UNCHANGED <<clock, arrivals>>
  /\ \E data \in RedditData(req[i].q) :
       LogAndReturn(i, "reddit", Step(req[i], "score"), RedditResult(req[i].q, data))

\* SettleReturns mutated: a settlement failure is answered with 500 and the
\* result is dropped.
SettleReturns500Mutant(i) ==
  /\ NoneDone
  /\ UNCHANGED <<pace, call, account>>
  /\ req[i].pc = "settling"
  /\ UNCHANGED <<file, clock, arrivals, recorded>>
  /\ \E settled \in BOOLEAN :
       IF settled
       THEN req' = [req EXCEPT ![i] =
                      [Step(@, "response") EXCEPT
                         !.settleOutcome = "ok",
                         !.oracleResult.payment =
                            [set |-> TRUE, creditsUsed |-> 1, error |-> "none"],
                         !.status = 200, !.pc = "done"]]
       ELSE req' = [req EXCEPT ![i] =
                      [Respond(@, 500, "settlement_failed", FALSE) EXCEPT
                         !.settleOutcome = "throws", !.oracleResult = NoResult]]

\* SettleReturns mutated: a failed settlement is tried again.
SettleReturnsRetryMutant(i) ==
  /\ NoneDone
  /\ UNCHANGED <<pace, call, account>>
  /\ req[i].pc = "settling"
  /\ UNCHANGED <<file, clock, arrivals, recorded>>
  /\ \E settled \in BOOLEAN :
       IF settled
       THEN req' = [req EXCEPT ![i] =
                      [Step(@, "response") EXCEPT
                         !.settleOutcome = "ok",
                         !.oracleResult.payment =
                            [set |-> TRUE, creditsUsed |-> 1, error |-> "none"],
                         !.status = 200, !.pc = "done"]]
       ELSE /\ req[i].settleCalls < 2
            /\ req' = [req EXCEPT ![i] =
                         [Step(@, "settle") EXCEPT
                            !.settleOutcome = "throws", !.settleCalls = @ + 1]]

\* SettleReturns mutated: when settlement fails the handler also marks the
\* result as failed.
SettleReturnsFailureClearsResultMutant(i) ==
  /\ NoneDone
  /\ UNCHANGED <<pace, call, account>>
  /\ req[i].pc = "settling"
  /\ UNCHANGED <<file, clock, arrivals, recorded>>
  /\ \E settled \in BOOLEAN :
       LET payment == IF settled
                      THEN [set |-> TRUE, creditsUsed |-> 1, error |-> "none"]
                      ELSE [set |-> TRUE, creditsUsed |-> 0, error |-> "settlement_failed"]
       IN req' = [req EXCEPT ![i] =
                    [Step(@, "response") EXCEPT
                       !.settleOutcome = IF settled THEN "ok" ELSE "throws",
                       !.oracleResult.payment = payment,
                       !.oracleResult.flag = IF settled THEN @ ELSE FALSE,
                       !.oracleResult.confidence = IF settled THEN @ ELSE 0,
                       !.status = 200, !.pc = "done"]]

\* settlePermissions resolved or threw: the payment sub-record is attached
\* (credits used and transaction, or settlement_failed) and the result is
\* sent with status 200.
SettleReturns(i) ==
  /\ NoneDone
  /\ UNCHANGED <<pace, call, account>>
  /\ req[i].pc = "settling"
  /\ UNCHANGED <<file, clock, arrivals, recorded>>
  /\ \E settled \in BOOLEAN :
       LET payment == IF settled
                      THEN [set |-> TRUE, creditsUsed |-> 1, error |-> "none"]
                      ELSE [set |-> TRUE, creditsUsed |-> 0, error |-> "settlement_failed"]
       IN req' = [req EXCEPT ![i] =
                    [Step(@, "response") EXCEPT
                       !.settleOutcome = IF settled THEN "ok" ELSE "throws",
                       !.oracleResult.payment = payment,
                       !.status = 200, !.pc = "done"]]

\* The handler returned after sendJSON (the command line printed): the
\* request and its locals are gone.
Forget(i) ==
  /\ req[i].pc = "done"
  /\ UNCHANGED <<pace, call, account>>
  /\ req' = [req EXCEPT ![i] = IdleReq]
  /\ UNCHANGED <<file, clock, arrivals, recorded>>

\* Time passes: the wall clock moves to a later sampled hour.
Tick ==
  /\ NoneDone
  /\ UNCHANGED <<pace, call, account>>
  /\ UNCHANGED <<req, file, arrivals, recorded>>
  /\ \E day \in Days, hour \in SampleHours :
       /\ \/ day > clock.day
          \/ day = clock.day /\ hour > clock.hour
       /\ clock' = [day |-> day, hour |-> hour]

Next ==
  \/ \E i \in Slots : Arrive(i)
  \/ \E i \in Slots : BodyParsed(i)
  \/ \E i \in Slots : VerifyReturns(i)
  \/ \E i \in Slots : FetchTeamReturns(i)
  \/ \E i \in Slots : FetchEventsReturns(i)
  \/ \E i \in Slots : PacingDone(i)
  \/ \E i \in Slots : RedditReturns(i)
  \/ \E i \in Slots : SettleReturns(i)
  \/ \E i \in Slots : Forget(i)

\* The process with the wall clock standing still.
Spec == Init /\ [][Next]_vars

\* The process under the scheduling the code guarantees.  A Reddit adapter
\* call passes `timeout: 10000` to axios.get, so it returns whether or not
\* the provider answers; the timer of enforceRateLimit fires; a handler that
\* has sent its response returns.  querySportsDB passes no timeout to
\* axios.get (whose default is none): its two requests return only when the
\* provider answers or the connection fails, which nothing guarantees.
Fairness ==
  \A i \in Slots :
    /\ WF_vars(PacingDone(i))
    /\ WF_vars(RedditReturns(i))
    /\ WF_vars(Forget(i))

SpecLive == Spec /\ Fairness

\* The process while time passes.
NextClock == Next \/ Tick
SpecClock == Init /\ [][NextClock]_vars

\* ------------------------------------------------------------- pacing
\* The adapter functions of reddit-oracle.js (fetchSubreddit, fetchPost,
\* searchSubreddit) called by concurrent callers, with the millisecond clock.
\* Each first awaits enforceRateLimit and then issues its provider request.

\* enforceRateLimit returned: lastRequestTime = Date.now(), and the caller
\* issues axios.get in the same turn.
IssueCall(i) ==
  [pace EXCEPT !.lastRequestTime = pace.now,
               !.wake[i] = NoTimer,
               !.callTimes = Append(@, pace.now)]

\* Caller i enters an adapter function: enforceRateLimit up to its await.
\* When less than requestDelayMs has elapsed since lastRequestTime a timer
\* is set for the remainder; otherwise the call is issued at once.
EnforceRateLimit(i) ==
  /\ pace.wake[i] = NoTimer
  /\ Len(pace.callTimes) + Cardinality({j \in Slots : pace.wake[j] # NoTimer}) < MaxCalls
  /\ UNCHANGED <<req, file, clock, arrivals, recorded, call, account>>
  /\ LET elapsed == pace.now - pace.lastRequestTime
     IN IF elapsed < RequestDelay
        THEN pace' = [pace EXCEPT !.wake[i] = pace.now + (RequestDelay - elapsed)]
        ELSE pace' = IssueCall(i)

\* The timer of caller i fires, at its time or later: enforceRateLimit
\* resumes after its await.
TimerFires(i) ==
  /\ pace.wake[i] # NoTimer
  /\ pace.now >= pace.wake[i]
  /\ UNCHANGED <<req, file, clock, arrivals, recorded, call, account>>
  /\ pace' = IssueCall(i)

\* The millisecond clock advances.
Advance ==
  /\ pace.now < MaxTime
  /\ UNCHANGED <<req, file, clock, arrivals, recorded, call, account>>
  /\ pace' = [pace EXCEPT !.now = @ + 1]

NextPacing ==
  \/ \E i \in Slots : EnforceRateLimit(i)
  \/ \E i \in Slots : TimerFires(i)
  \/ Advance

SpecPacing == Init /\ [][NextPacing]_vars

\* ------------------------------------------------------- command line
\* The command lines of reddit-oracle.js and part_000, run one after the
\* other while time passes: each run is one askOracle call from start to
\* end in a process of its own.

\* The results a run that passed the pre-check can end with, as logQuery
\* sees them: a success with the module's base confidence, or a failure.
RunResults(d) ==
  { Result(TRUE,
           IF d = "reddit" THEN RedditBaseConfidence ELSE SportsBaseConfidence,
           "none", FALSE),
    Result(FALSE, 0, "failed", FALSE) }

\* One run: askOracle makes the safety pre-check and returns the safety
\* result, or goes on to a result, records it with logQuery and returns it.
RunCommandLine(d) ==
  /\ arrivals < MaxArrivals
  /\ arrivals' = arrivals + 1
  /\ UNCHANGED <<req, clock, pace, call, account>>
  /\ IF ~checkSafetyLimits(d, file[d], clock).safe
     THEN UNCHANGED <<file, recorded>>
     ELSE \E result \in RunResults(d) :
            /\ file' = [file EXCEPT ![d] = LogQuery(d, @, result, clock)]
            /\ recorded' = [recorded EXCEPT ![d] = <<result.flag>> \o @]

\* The stats documents the runs start from, per domain <<queries recorded,
\* how many of the latest failed>>: none, one entry short of the trim of
\* recentQueries, one query short of the daily quota.
StatsScenarios ==
  { [reddit |-> <<0, 0>>, safe |-> <<0, 0>>],
    [reddit |-> <<RecentCap - 1, 2>>, safe |-> <<0, 0>>],
    [reddit |-> <<0, 0>>, safe |-> <<RecentCap - 1, 2>>],
    [reddit |-> <<MaxQueriesPerDayReddit - 1, 0>>, safe |-> <<0, 0>>],
    [reddit |-> <<0, 0>>, safe |-> <<MaxQueriesPerDaySports - 1, 0>>] }

InitStats ==
  /\ req = [i \in Slots |-> IdleReq]
  /\ clock = [day |-> 0, hour |-> 0]
  /\ arrivals = 0
  /\ pace = PaceInit
  /\ call = NoCall
  /\ account = NoAccount
  /\ \E sc \in StatsScenarios :
       /\ file = [d \in StatsDomains |->
                    Replay(d, MissingFile, 1, sc[d][1], sc[d][1], sc[d][2])]
       /\ recorded = [d \in StatsDomains |-> ReplayRecorded(sc[d][1], sc[d][2])]

NextStats ==
  \/ \E d \in StatsDomains : RunCommandLine(d)
  \/ Tick

SpecStats == InitStats /\ [][NextStats]_vars

\* ----------------------------------------------------- calls in sequence
\* askOracle of reddit-oracle.js and of part_000 called one call after
\* another (no two calls overlap), starting with no stats file.  call holds
\* the latest call: its module and question, the result it returned and
\* the number of provider requests made by all calls so far.

\* The provider requests made by the calls so far.
ProviderCallsSoFar == IF call.fn = "askOracle" THEN call.out.providerCalls ELSE 0

\* What a call that passed the pre-check and parsed its question can end
\* with: <<result, provider requests made>>.
AdapterOutcomes(d, q) ==
  IF d = "reddit"
  THEN { <<RedditResult(q, data), 1>> : data \in RedditData(q) }
  ELSE { <<verifyResult(q, out, FALSE), 1>> : out \in TeamSearchAnswers \ {"teams"} }
         \cup { <<Floored(verifyResult(q, out, opp)), 2>> :
                   out \in EventsAnswers, opp \in BOOLEAN }

\* The parse error askOracle of module d returns for question q, "none"
\* when the question parses.
ParseErrorOf(d, q) ==
  IF d = "reddit" THEN RedditParseError(q)
  ELSE IF q = "no_team" THEN "could_not_parse_team_name"
  ELSE "none"

RunQuestions(d) == IF d = "reddit" THEN RedditQuestions ELSE SportsQuestions

\* The call returned result after made provider requests.
Returned(d, q, result, made) ==
  call' = [fn |-> "askOracle", done |-> TRUE,
           in |-> [module |-> d, q |-> q],
           out |-> [result |-> result, providerCalls |-> ProviderCallsSoFar + made]]

\* RunAskOracle mutated: a parse failure is returned without being logged.
RunAskOracleParseUnloggedMutant(d) ==
  /\ arrivals < MaxRuns
  /\ arrivals' = arrivals + 1
  /\ UNCHANGED <<req, clock, pace, account>>
  /\ \E q \in RunQuestions(d) :
       LET check == checkSafetyLimits(d, file[d], clock)
       IN IF ~check.safe
          THEN /\ Returned(d, q, SafetyResult(check), 0)
               /\ UNCHANGED <<file, recorded>>
          ELSE IF ParseErrorOf(d, q) # "none"
          THEN /\ Returned(d, q, ParseErrorResult(ParseErrorOf(d, q)), 0)
               /\ UNCHANGED <<file, recorded>>
          ELSE \E o \in AdapterOutcomes(d, q) :
                 /\ Returned(d, q, o[1], o[2])
                 /\ file' = [file EXCEPT ![d] = LogQuery(d, @, o[1], clock)]
                 /\ recorded' = [recorded EXCEPT ![d] = <<o[1].flag>> \o @]

\* One whole askOracle call of module d: the safety pre-check, the parse,
\* the adapter, logQuery, return.
RunAskOracle(d) ==
  /\ arrivals < MaxRuns
  /\ arrivals' = arrivals + 1
  /\ UNCHANGED <<req, clock, pace, account>>
  /\ \E q \in RunQuestions(d) :
       LET check == checkSafetyLimits(d, file[d], clock)
       IN IF ~check.safe
          THEN /\ Returned(d, q, SafetyResult(check), 0)
               /\ UNCHANGED <<file, recorded>>
          ELSE IF ParseErrorOf(d, q) # "none"
          THEN LET result == ParseErrorResult(ParseErrorOf(d, q))
               IN /\ Returned(d, q, result, 0)
                  /\ file' = [file EXCEPT ![d] = LogQuery(d, @, result, clock)]
                  /\ recorded' = [recorded EXCEPT ![d] = <<result.flag>> \o @]
          ELSE \E o \in AdapterOutcomes(d, q) :
                 /\ Returned(d, q, o[1], o[2])
                 /\ file' = [file EXCEPT ![d] = LogQuery(d, @, o[1], clock)]
                 /\ recorded' = [recorded EXCEPT ![d] = <<o[1].flag>> \o @]

InitRuns ==
  /\ req = [i \in Slots |-> IdleReq]
  /\ clock = [day |-> 0, hour |-> 0]
  /\ arrivals = 0
  /\ pace = PaceInit
  /\ call = NoCall
  /\ account = NoAccount
  /\ file = [d \in StatsDomains |-> MissingFile]
  /\ recorded = [d \in StatsDomains |-> <<>>]

NextRuns == \E d \in StatsDomains : RunAskOracle(d)

SpecRuns == InitRuns /\ [][NextRuns]_vars

\* ------------------------------------------ verify and settle with credits
\* The payment service as section 4 of the description has it: the
\* credential's plan holds a balance; verifyPermissions with maxAmount 1
\* answers isValid exactly when the balance covers one credit and changes
\* nothing; settlePermissions with maxAmount 1 debits one credit in one
\* step and throws only when the balance does not cover it.  Either call can
\* still fail to reach the service (verify) as in handleOracleRequest.

\* verifyPermissions resolved or threw (server.mjs 235-257), the service
\* answering for the balance.
VerifyBalance(i) ==
  /\ NoneDone
  /\ UNCHANGED <<pace, call, account>>
  /\ req[i].pc = "verifying"
  /\ UNCHANGED <<clock, arrivals>>
  /\ \E v \in {IF account.balance >= 1 THEN "valid" ELSE "invalid", "throws"} :
       LET r == [req[i] EXCEPT !.verifyOutcome = v]
       IN IF v = "invalid"
          THEN /\ req' = [req EXCEPT ![i] = Respond(r, 401, "insufficient_credits", TRUE)]
               /\ UNCHANGED <<file, recorded>>
          ELSE IF v = "throws"
          THEN /\ req' = [req EXCEPT ![i] = Respond(r, 401, "verification_failed", TRUE)]
               /\ UNCHANGED <<file, recorded>>
          ELSE AskOracle(i, r)

\* settlePermissions resolved or threw (server.mjs 285-307), the service
\* debiting the balance: the payment sub-record is attached and the result
\* is sent with status 200 either way.
SettleDebit(i) ==
  /\ NoneDone
  /\ UNCHANGED <<pace, call>>
  /\ req[i].pc = "settling"
  /\ UNCHANGED <<file, clock, arrivals, recorded>>
  /\ LET settled == account.balance >= 1
         payment == IF settled
                    THEN [set |-> TRUE, creditsUsed |-> 1, error |-> "none"]
                    ELSE [set |-> TRUE, creditsUsed |-> 0, error |-> "settlement_failed"]
     IN /\ req' = [req EXCEPT ![i] =
                     [Step(@, "response") EXCEPT
                        !.settleOutcome = IF settled THEN "ok" ELSE "throws",
                        !.oracleResult.payment = payment,
                        !.status = 200, !.pc = "done"]]
        /\ account' = [account EXCEPT
                         !.balance = IF settled THEN @ - 1 ELSE @,
                         !.results = @ + 1]

\* The process starts with empty stats files and a credential holding some
\* credits.
InitPayment ==
  /\ req = [i \in Slots |-> IdleReq]
  /\ clock = [day |-> 0, hour |-> 0]
  /\ arrivals = 0
  /\ pace = PaceInit
  /\ call = NoCall
  /\ file = [d \in StatsDomains |-> MissingFile]
  /\ recorded = [d \in StatsDomains |-> <<>>]
  /\ \E b \in 0..MaxBalance :
       account = [initial |-> b, balance |-> b, results |-> 0]

NextPayment ==
  \/ \E i \in Slots : Arrive(i)
  \/ \E i \in Slots : BodyParsed(i)
  \/ \E i \in Slots : VerifyBalance(i)
  \/ \E i \in Slots : FetchTeamReturns(i)
  \/ \E i \in Slots : FetchEventsReturns(i)
  \/ \E i \in Slots : PacingDone(i)
  \/ \E i \in Slots : RedditReturns(i)
  \/ \E i \in Slots : SettleDebit(i)
  \/ \E i \in Slots : Forget(i)

SpecPayment == InitPayment /\ [][NextPayment]_vars

\* ------------------------------------------------------ function calls
\* The functions of the oracle modules called one at a time, each on an
\* input drawn when the run starts.

\* An adapter function is called with the answer the provider will give.
AdapterInputs == [op : Operations, response : Responses]

\* verifyResult is called with a query and the event querySportsDB found.
Opponents ==
  { Null, <<"H", "e", "a", "t">>, <<"h", "e", "a", "t">>, <<"H", "E", "A", "T">>, <<"B", "u", "l", "l", "s">>, <<"M", "i", "a", "m", "i", " ", "H", "e", "a", "t">>, <<"L", "a", "k", "e", "r", "s">> }
HomeTeams == { <<"M", "i", "a", "m", "i", " ", "H", "e", "a", "t">>, <<"C", "h", "i", "c", "a", "g", "o", " ", "B", "u", "l", "l", "s">> }
AwayTeams == { <<"C", "h", "i", "c", "a", "g", "o", " ", "B", "u", "l", "l", "s">>, <<"L", "o", "s", " ", "A", "n", "g", "e", "l", "e", "s", " ", "L", "a", "k", "e", "r", "s">>, <<"M", "i", "a", "m", "i", " ", "H", "e", "a", "t">> }
VerifyInputs == [opponent : Opponents, homeTeam : HomeTeams, awayTeam : AwayTeams]

\* applyConfidenceFloor is called with a confidence, and askOracle of
\* part_000 goes on from `await verifyResult(parsed)` with a result that
\* carries it.
FloorInputs == [flag : BOOLEAN, confidence : (0 - MaxConfidence)..MaxConfidence]
FloorResult(x) == Result(x.flag, x.confidence, IF x.flag THEN "none" ELSE "failed", FALSE)

\* The questions the parsers are called with: up to MaxWords words of a
\* vocabulary, separated by single spaces, and the examples of the
\* documentation.
RECURSIVE Join(_)
Join(ws) ==
  IF Len(ws) = 0 THEN <<>>
  ELSE IF Len(ws) = 1 THEN ws[1]
  ELSE ws[1] \o <<" ">> \o Join(Tail(ws))

Phrases(vocabulary) ==
  { Join(ws) : ws \in UNION { [1..n -> vocabulary] : n \in 1..MaxWords } }

RedditWords ==
  { <<"s", "h", "o", "w">>,
    <<"h", "o", "t">>,
    <<"N", "e", "w", "e", "s", "t">>,
    <<"t", "o", "p">>,
    <<"f", "i", "n", "d">>,
    <<"p", "o", "s", "t">>,
    <<"a", "b", "c", "1", "2", "3", "4">>,
    <<"r", "/", "a", "w", "w">>,
    <<"o", "n">>,
    <<"p", "i", "c", "s">>,
    <<"s", "u", "b", "r", "e", "d", "d", "i", "t">> }
RedditExample == <<"W", "h", "a", "t", "'", "s", " ", "h", "o", "t", " ", "o", "n", " ", "r", "/", "w", "a", "l", "l", "s", "t", "r", "e", "e", "t", "b", "e", "t", "s", "?">>
RedditExamplePost == <<"S", "h", "o", "w", " ", "p", "o", "s", "t", " ", "a", "b", "c", "1", "2", "3", "4", " ", "o", "n", " ", "r", "/", "w", "a", "l", "l", "s", "t", "r", "e", "e", "t", "b", "e", "t", "s">>
RedditQuestionTexts == Phrases(RedditWords) \cup {RedditExample, RedditExamplePost}

\* Questions to the sports oracle: the example of SKILL.md and the phrases
\* of a vocabulary with a question word, team names of one and of two
\* words, a date no calendar has and a relative date.
SportsWords ==
  { <<"W", "h", "o">>,
    <<"L", "a", "k", "e", "r", "s">>,
    <<"R", "e", "d">>,
    <<"S", "o", "x">>,
    <<"b", "e", "a", "t">>,
    <<"2", "0", "2", "6", "-", "0", "2", "-", "3", "0">>,
    <<"y", "e", "s", "t", "e", "r", "d", "a", "y">> }
SportsExample == <<"W", "h", "o", " ", "w", "o", "n", " ", "t", "h", "e", " ", "L", "a", "k", "e", "r", "s", " ", "g", "a", "m", "e", " ", "o", "n", " ", "2", "0", "2", "6", "-", "0", "1", "-", "1", "9", "?">>
\* Questions with a date in each of the forms the parser looks for: the
\* default question of the command line, a relative term with a capital or
\* in capitals, and a date written out.
SportsDateExamples ==
  { <<"W", "h", "o", " ", "w", "o", "n", " ", "t", "h", "e", " ", "L", "a", "k", "e", "r", "s", " ", "g", "a", "m", "e", " ", "y", "e", "s", "t", "e", "r", "d", "a", "y", "?">>,
    <<"W", "h", "o", " ", "w", "o", "n", " ", "t", "h", "e", " ", "L", "a", "k", "e", "r", "s", " ", "g", "a", "m", "e", " ", "Y", "e", "s", "t", "e", "r", "d", "a", "y", "?">>,
    <<"L", "a", "k", "e", "r", "s", " ", "g", "a", "m", "e", " ", "T", "O", "D", "A", "Y">>,
    <<"D", "i", "d", " ", "t", "h", "e", " ", "L", "a", "k", "e", "r", "s", " ", "w", "i", "n", " ", "o", "n", " ", "J", "a", "n", "u", "a", "r", "y", " ", "3", "0", ",", " ", "2", "0", "2", "6", "?">> }
SportsQuestionTexts == Phrases(SportsWords) \cup {SportsExample} \cup SportsDateExamples
SportsModules == {"oracle", "safe"}
Nows == {[y |-> 2026, m |-> 3, d |-> 1], [y |-> 2026, m |-> 1, d |-> 20]}
SportsInputs == [module : SportsModules, question : SportsQuestionTexts, now : Nows]

\* Names given to normalizeTeamName: every key and every canonical name of
\* the table, keys in other letter case and with spaces around, names the
\* table does not hold (among them names of members every object
\* inherits), a blank and no name.
TeamNames ==
  {a[1] : a \in TEAM_ALIASES} \cup {a[2] : a \in TEAM_ALIASES} \cup {Null}
    \cup { <<"L", "a", "k", "e", "r", "s">>,
           <<" ", "l", "a", "k", "e", "r", "s", " ">>,
           <<"L", "A", "K", "E", "R", "S">>,
           <<"R", "e", "d", " ", "S", "o", "x">>,
           <<"U", "n", "k", "n", "o", "w", "n", " ", "R", "o", "v", "e", "r", "s">>,
           <<"c", "o", "n", "s", "t", "r", "u", "c", "t", "o", "r">>,
           <<"C", "o", "n", "s", "t", "r", "u", "c", "t", "o", "r">>,
           <<"_", "_", "p", "r", "o", "t", "o", "_", "_">>,
           <<" ">> }

InitFunctions ==
  /\ req = [i \in Slots |-> IdleReq]
  /\ clock = [day |-> 0, hour |-> 0]
  /\ arrivals = 0
  /\ pace = PaceInit
  /\ account = NoAccount
  /\ file = [d \in StatsDomains |-> MissingFile]
  /\ recorded = [d \in StatsDomains |-> <<>>]
  /\ \/ \E x \in AdapterInputs :
          call = [fn |-> "adapter", done |-> FALSE, in |-> x, out |-> "none"]
     \/ \E x \in VerifyInputs :
          call = [fn |-> "verifyResult", done |-> FALSE, in |-> x, out |-> "none"]
     \/ \E x \in FloorInputs :
          call = [fn |-> "applyConfidenceFloor", done |-> FALSE, in |-> x, out |-> "none"]
     \/ \E x \in RedditQuestionTexts :
          call = [fn |-> "parseQuestionReddit", done |-> FALSE, in |-> x, out |-> "none"]
     \/ \E x \in SportsInputs :
          call = [fn |-> "askOracleSports", done |-> FALSE, in |-> x, out |-> "none"]
     \/ \E x \in TeamNames :
          call = [fn |-> "normalizeTeamName", done |-> FALSE, in |-> x, out |-> "none"]

\* fetchSubreddit, fetchPost or searchSubreddit returns.
CallAdapter ==
  /\ call.fn = "adapter" /\ ~call.done
  /\ call' = [call EXCEPT !.done = TRUE,
                          !.out = Adapter(call.in.op, call.in.response)]
  /\ UNCHANGED <<req, file, clock, arrivals, recorded, pace, account>>

\* verifyResult returns, querySportsDB having found an event.
CallVerifyResult ==
  /\ call.fn = "verifyResult" /\ ~call.done
  /\ LET x == call.in
     IN call' = [call EXCEPT
                   !.done = TRUE,
                   !.out = verifyResult(IF x.opponent # Null THEN "team_opponent" ELSE "team",
                                        "none",
                                        OpponentMatch(x.opponent, x.homeTeam, x.awayTeam))]
  /\ UNCHANGED <<req, file, clock, arrivals, recorded, pace, account>>

\* applyConfidenceFloor returns; askOracle of part_000 applies the floor to
\* the result.
CallApplyConfidenceFloor ==
  /\ call.fn = "applyConfidenceFloor" /\ ~call.done
  /\ call' = [call EXCEPT
                !.done = TRUE,
                !.out = [floor |-> applyConfidenceFloor(call.in.confidence),
                         result |-> Floored(FloorResult(call.in))]]
  /\ UNCHANGED <<req, file, clock, arrivals, recorded, pace, account>>

\* parseQuestion of reddit-oracle.js returns.
CallParseQuestionReddit ==
  /\ call.fn = "parseQuestionReddit" /\ ~call.done
  /\ call' = [call EXCEPT !.done = TRUE, !.out = parseQuestionReddit(call.in)]
  /\ UNCHANGED <<req, file, clock, arrivals, recorded, pace, account>>

\* askOracle of a sports module has parsed the question and calls
\* verifyResult, or returns could_not_parse_team_name.
CallAskOracleSports ==
  /\ call.fn = "askOracleSports" /\ ~call.done
  /\ call' = [call EXCEPT
                !.done = TRUE,
                !.out = askOracleSportsQuery(call.in.module, call.in.question, call.in.now)]
  /\ UNCHANGED <<req, file, clock, arrivals, recorded, pace, account>>

\* What a call of a string method on a value that has none ends with.
TypeError == <<"TypeError">>

\* normalizeTeamName returns, and is applied to what it returned.  Applied
\* to an object that is no string, teamName.toLowerCase is no function.
CallNormalizeTeamName ==
  /\ call.fn = "normalizeTeamName" /\ ~call.done
  /\ LET once == normalizeTeamName(call.in)
         twice == IF once \in {a[2] : a \in InheritedMembers}
                  THEN TypeError
                  ELSE normalizeTeamName(once)
     IN call' = [call EXCEPT !.done = TRUE, !.out = [once |-> once, twice |-> twice]]
  /\ UNCHANGED <<req, file, clock, arrivals, recorded, pace, account>>

NextFunctions ==
  \/ CallAdapter
  \/ CallVerifyResult
  \/ CallApplyConfidenceFloor
  \/ CallParseQuestionReddit
  \/ CallAskOracleSports
  \/ CallNormalizeTeamName

SpecFunctions == InitFunctions /\ [][NextFunctions]_vars

\* ----------------------------------------------------------- properties
\* The index of the first occurrence of name in trace, 0 when there is none.
Pos(trace, name) ==
  IF \E k \in 1..Len(trace) : trace[k] = name
  THEN CHOOSE k \in 1..Len(trace) :
         trace[k] = name /\ \A j \in 1..(k - 1) : trace[j] # name
  ELSE 0

\* What askOracle returned, without the payment sub-record.
Core(result) ==
  [flag |-> result.flag, confidence |-> result.confidence,
   error |-> result.error, safetyTriggered |-> result.safetyTriggered]

Tripped(d) ==
  checkSafetyLimits(d, file[d], clock).reason = "circuit_breaker_tripped"

\* The latest MaxConsecutiveErrors recorded outcomes exist and all failed.
LatestAllFailed(s) ==
  /\ Len(s) >= MaxConsecutiveErrors
  /\ \A k \in 1..MaxConsecutiveErrors : ~s[k]

Rejected(r) == ~r.hasToken \/ r.verifyOutcome \in {"invalid", "throws"}

\* C1: a paid request without a credential, or whose verify returned
\* isValid=false or threw, never reaches askOracle or the adapter, and is
\* answered 402 (no credential) or 401 (otherwise) with a purchaseUrl.
C1_RejectedNeverAsksOracle ==
  \A i \in Slots :
    LET r == req[i]
    IN IsPaid(r.ep) /\ Rejected(r) =>
         /\ r.oracleCalls = 0 /\ r.adapterCalls = 0 /\ r.httpCalls = 0
         /\ r.pc = "done"
         /\ r.status = (IF r.hasToken THEN 401 ELSE 402)
         /\ r.purchaseUrl

C1_Witness ==
  \E i \in Slots :
    /\ req[i].verifyOutcome = "invalid" /\ req[i].status = 401
    /\ req[i].ep = "reddit"

\* C2: in every step that records an outcome, if the latest five recorded
\* outcomes are then all failures the pre-check reports the tripped breaker,
\* and if the recorded outcome is a success it does not; and an askOracle
\* call made while the breaker is tripped returns the safety result without
\* invoking the adapter.
C2_BreakerSequential ==
  [][\A d \in StatsDomains :
       /\ Len(recorded'[d]) = Len(recorded[d]) + 1 /\ LatestAllFailed(recorded'[d])
            => Tripped(d)'
       /\ Len(recorded'[d]) = Len(recorded[d]) + 1 /\ recorded'[d][1]
            => ~Tripped(d)'
       /\ \A i \in Slots :
            /\ Tripped(d)
            /\ req'[i].oracleCalls = req[i].oracleCalls + 1
            /\ OracleOf(req'[i].ep) = d
            => /\ req'[i].adapterCalls = 0 /\ req'[i].httpCalls = 0
               /\ req'[i].hasResult
               /\ req'[i].returned.error = "circuit_breaker_tripped"
               /\ ~req'[i].returned.flag]_vars

\* A success was recorded right after five failures in a row.
C2_Witness ==
  \E d \in StatsDomains :
    /\ Len(recorded[d]) > MaxConsecutiveErrors
    /\ recorded[d][1]
    /\ \A k \in 2..(MaxConsecutiveErrors + 1) : ~recorded[d][k]
    /\ ~Tripped(d)

\* C3: the pre-check reports circuit_breaker_tripped exactly when at least
\* five outcomes are recorded for the domain and the latest five all failed.
C3_TrippedIffLatestFiveFailed ==
  \A d \in StatsDomains : Tripped(d) <=> LatestAllFailed(recorded[d])

C3_Witness ==
  \E d \in StatsDomains :
    /\ Tripped(d)
    /\ Len(recorded[d]) = MaxConsecutiveErrors
    /\ \E i \in Slots : req[i].logged = 1 /\ OracleOf(req[i].ep) = d

\* C4: every result askOracle returns has confidence 0 when its outcome
\* flag is false and a confidence from 0.5 to 1 when it is true.
C4_ConfidenceByOutcome ==
  \A i \in Slots :
    req[i].hasResult =>
      LET x == req[i].returned
      IN /\ ~x.flag => x.confidence = 0
         /\ x.flag => MinConfidenceFloor <= x.confidence /\ x.confidence <= 100

C4_Witness ==
  \E i \in Slots :
    /\ req[i].hasResult /\ ~req[i].returned.flag
    /\ req[i].adapterCalls = 1 /\ req[i].ep = "verify"

\* C5: when settle throws after askOracle returned a result, the response
\* is 200 and carries that result unchanged, with payment.error =
\* settlement_failed and creditsUsed = 0.
C5_SettleFailureStill200 ==
  \A i \in Slots :
    LET r == req[i]
    IN r.settleOutcome = "throws" =>
         /\ r.pc = "done" /\ r.status = 200
         /\ Core(r.oracleResult) = Core(r.returned)
         /\ r.oracleResult.payment =
              [set |-> TRUE, creditsUsed |-> 0, error |-> "settlement_failed"]

C5_Witness ==
  \E i \in Slots :
    /\ req[i].settleOutcome = "throws" /\ req[i].status = 200
    /\ req[i].returned.flag

\* C6: settle is invoked at most once per request; after a failed settle
\* the request is finished without another attempt and still holds the
\* result askOracle returned.
C6_SettleAtMostOnce ==
  \A i \in Slots :
    LET r == req[i]
    IN /\ r.settleCalls <= 1
       /\ r.settleOutcome = "throws" =>
            /\ r.pc = "done" /\ r.settleCalls = 1
            /\ r.hasResult /\ Core(r.oracleResult) = Core(r.returned)

C6_Witness ==
  \E i \in Slots :
    /\ req[i].settleOutcome = "throws" /\ req[i].settleCalls = 1
    /\ ~req[i].returned.flag

\* The payment state of a request, from what the payment service answered.
PayState(r) ==
  IF ~IsPaid(r.ep) THEN "NONE"
  ELSE IF Rejected(r) THEN "REJECTED"
  ELSE IF r.settleOutcome = "ok" THEN "SETTLED"
  ELSE IF r.settleOutcome = "throws" THEN "SETTLEMENT_FAILED"
  ELSE IF r.verifyOutcome = "valid" THEN "VERIFIED"
  ELSE "PENDING"

PayMoves ==
  { <<"PENDING", "VERIFIED">>, <<"PENDING", "REJECTED">>,
    <<"VERIFIED", "SETTLED">>, <<"VERIFIED", "SETTLEMENT_FAILED">> }

\* C7: the payment state of a request only moves PENDING -> VERIFIED ->
\* SETTLED or SETTLEMENT_FAILED, or PENDING -> REJECTED; settle is only
\* invoked in state VERIFIED; a rejected request asks no oracle and settles
\* nothing.  (A slot starts a request from NONE and returns to it.)
C7_PaymentStateMachine ==
  [][\A i \in Slots :
       LET s == PayState(req[i])
           t == PayState(req'[i])
       IN /\ \/ s = t
             \/ <<s, t>> \in PayMoves
             \/ s = "NONE" /\ t \in {"PENDING", "REJECTED"}
             \/ t = "NONE" /\ req[i].pc = "done"
          /\ req'[i].settleCalls > req[i].settleCalls
               => s = "VERIFIED" \/ (s = "PENDING" /\ t = "VERIFIED")
          /\ t = "REJECTED"
               => req'[i].oracleCalls = 0 /\ req'[i].settleCalls = 0
                  /\ req'[i].pc = "done"]_vars

C7_Witness ==
  \E i \in Slots :
    /\ PayState(req[i]) = "SETTLEMENT_FAILED"
    /\ req[i].verifyOutcome = "valid" /\ req[i].settleCalls = 1

\* C8: a request the safety pre-check rejected makes no adapter call and
\* no settle call.
C8_SafetyRejectionNotSettled ==
  \A i \in Slots :
    req[i].hasResult /\ req[i].returned.safetyTriggered =>
      req[i].adapterCalls = 0 /\ req[i].settleCalls = 0

\* C9: on a paid endpoint settle is invoked exactly once for every result
\* askOracle returns, whatever its outcome flag, after the result was
\* produced and before the response; and never without a result.
C9_SettleOncePerResult ==
  \A i \in Slots :
    LET r == req[i]
    IN IsPaid(r.ep) =>
         /\ r.settleCalls >= 1 => r.hasResult
         /\ r.hasResult =>
              /\ r.settleCalls = 1
              /\ Pos(r.trace, "score") > 0
              /\ Pos(r.trace, "score") < Pos(r.trace, "settle")
              /\ r.pc = "done" =>
                   /\ r.status = 200
                   /\ Pos(r.trace, "settle") < Pos(r.trace, "response")

C9_Witness ==
  \E i \in Slots :
    /\ IsPaid(req[i].ep) /\ req[i].pc = "done" /\ req[i].hasResult
    /\ ~req[i].returned.flag /\ req[i].settleCalls = 1 /\ req[i].status = 200

\* The order of the steps of a paid request.
StepOrder ==
  <<"verify", "check", "parse", "adapter", "score", "log", "settle", "response">>

\* C10: on both paid endpoints every request that reached the adapter went
\* through verify, safety pre-check, parse, adapter, scoring, log record,
\* settle, response in this order: its steps so far are a prefix of it.
C10_PipelineOrder ==
  \A i \in Slots :
    IsPaid(req[i].ep) /\ req[i].adapterCalls > 0 =>
      /\ Len(req[i].trace) <= Len(StepOrder)
      /\ req[i].trace = SubSeq(StepOrder, 1, Len(req[i].trace))

\* The stored count of today's queries has reached the domain's quota.
QuotaReached(d) ==
  /\ ~NoRecentQueries(file[d])
  /\ loadStats(file[d], clock).todayQueries >= MaxQueriesPerDay(d)

\* Request i calls askOracle of domain d in this step.
EntersAskOracle(i, d) ==
  /\ req'[i].oracleCalls = req[i].oracleCalls + 1
  /\ OracleOf(req'[i].ep) = d

\* C11: an askOracle call made while the domain's todayQueries has reached
\* the daily quota returns a safety rejection, whether or not the breaker
\* is tripped too, without an adapter call and without recording anything.
C11_QuotaRejects ==
  [][\A d \in StatsDomains : \A i \in Slots :
       QuotaReached(d) /\ EntersAskOracle(i, d) =>
         /\ req'[i].hasResult
         /\ req'[i].returned.safetyTriggered /\ ~req'[i].returned.flag
         /\ req'[i].returned.confidence = 0
         /\ req'[i].returned.error \in {"daily_limit_reached", "circuit_breaker_tripped"}
         /\ req'[i].returned.error = "daily_limit_reached" <=> ~Tripped(d)
         /\ req'[i].adapterCalls = 0 /\ req'[i].httpCalls = 0
         /\ req'[i].logged = 0
         /\ file' = file /\ recorded' = recorded]_vars

\* A request was rejected while the quota was reached and the breaker was
\* tripped as well.
C11_Witness ==
  \E i \in Slots :
    /\ req[i].ep = "reddit" /\ req[i].hasResult /\ req[i].returned.safetyTriggered
    /\ QuotaReached("reddit") /\ Tripped("reddit")
    /\ req[i].adapterCalls = 0 /\ req[i].logged = 0

\* C12: in the server process the queries recorded for the reddit domain on
\* one day never exceed the daily quota: todayQueries <= maxQueriesPerDay.
C12_QuotaNeverExceeded ==
  file["reddit"].kind = "json" =>
    file["reddit"].doc.todayQueries <= MaxQueriesPerDay("reddit")

\* C13: no provider call of the reddit domain is started at a moment when
\* the five latest recorded outcomes of that domain are all failures.
C13_NoCallWhileTripped ==
  [][\A i \in Slots :
       /\ req'[i].httpCalls = req[i].httpCalls + 1
       /\ OracleOf(req'[i].ep) = "reddit"
       => ~LatestAllFailed(recorded["reddit"])]_vars

\* The latest n of the recorded outcomes s as recentQueries entries.
LatestEntries(s, n) ==
  [k \in 1..(IF Len(s) <= n THEN Len(s) ELSE n) |-> [flag |-> s[k]]]

\* C14: no update is lost.  With the date standing still, after any
\* interleaving of requests the stats document counts every recorded
\* outcome once: totalQueries, todayQueries and successCount + errorCount
\* are the number of outcomes recorded, and recentQueries holds the latest
\* of them up to the trim.
C14_NoLostUpdates ==
  \A d \in StatsDomains :
    LET s == loadStats(file[d], clock)
        n == Len(recorded[d])
    IN ~NoRecentQueries(file[d]) =>
       /\ s.totalQueries = n
       /\ s.todayQueries = n
       /\ s.successCount + s.errorCount = n
       /\ s.recentQueries = LatestEntries(recorded[d], RecentCap)

\* Two requests of the server were in flight together and each recorded
\* its outcome.
C14_Witness ==
  /\ \A i \in Slots :
       /\ req[i].ep = "reddit" /\ req[i].logged = 1
       /\ req[i].pc = "settling" /\ req[i].adapterCalls = 1
  /\ loadStats(file["reddit"], clock).totalQueries = 2

\* C15: any two provider calls of the reddit domain, whoever issued them,
\* start at least requestDelayMs apart.
C15_CallsPaced ==
  \A k \in 1..(Len(pace.callTimes) - 1) :
    pace.callTimes[k + 1] - pace.callTimes[k] >= RequestDelay

\* The hourly histogram with nothing counted.
ZeroBuckets == [h \in 1..HoursPerDay |-> 0]

\* C16: a logQuery call resets the daily state exactly when the stored
\* lastReset differs from the current date: then todayQueries and all 24
\* buckets start from zero and lastReset becomes the current date before
\* the query is counted; otherwise nothing is reset.  The bucket counted
\* is the one of the current hour, 0..23, and there are always 24 buckets.
C16_DailyReset ==
  [][\A d \in StatsDomains :
       recorded'[d] # recorded[d] =>
         LET s == loadStats(file[d], clock)
             t == loadStats(file'[d], clock)
             h == clock.hour + 1
         IN /\ clock.hour \in 0..(HoursPerDay - 1)
            /\ DOMAIN t.hourlyData = 1..HoursPerDay
            /\ t.lastReset = clock.day
            /\ IF s.lastReset # clock.day
               THEN /\ t.todayQueries = 1
                    /\ t.hourlyData = [ZeroBuckets EXCEPT ![h] = 1]
               ELSE /\ t.todayQueries = s.todayQueries + 1
                    /\ t.hourlyData = [s.hourlyData EXCEPT ![h] = @ + 1]
            /\ t.totalQueries = s.totalQueries + 1]_vars

\* A query was counted after a reset, in the last hour of a later day.
C16_Witness ==
  \E d \in StatsDomains :
    LET s == loadStats(file[d], clock)
    IN /\ s.lastReset = 1 /\ s.todayQueries = 1 /\ s.totalQueries > 1
       /\ s.hourlyData[HoursPerDay] = 1 /\ s.hourlyData[1] = 0

\* C17: once the date is later than lastReset the pre-check does not
\* reject for the daily quota.
C17_NoStaleQuotaRejection ==
  \A d \in StatsDomains :
    clock.day > loadStats(file[d], clock).lastReset =>
      checkSafetyLimits(d, file[d], clock).reason # "daily_limit_reached"

\* C18: recentQueries holds at most 50 entries, the latest recorded
\* outcomes newest first.
C18_RecentIsLatestFifty ==
  \A d \in StatsDomains :
    LET recentQueries == loadStats(file[d], clock).recentQueries
    IN /\ Len(recentQueries) <= RecentCap
       /\ Len(recentQueries) =
            (IF Len(recorded[d]) <= RecentCap THEN Len(recorded[d]) ELSE RecentCap)
       /\ \A k \in 1..Len(recentQueries) : recentQueries[k].flag = recorded[d][k]

\* More than 50 outcomes were recorded, the newest a success and the one
\* before it a failure.
C18_Witness ==
  \E d \in StatsDomains :
    LET recentQueries == loadStats(file[d], clock).recentQueries
    IN /\ Len(recorded[d]) = RecentCap + 2
       /\ Len(recentQueries) = RecentCap
       /\ recentQueries[1].flag /\ ~recentQueries[2].flag

\* C19: a stats file that is missing or damaged does not fail the request:
\* every askOracle call with a question string, in a module that keeps
\* stats, ends with a result (and the paid request with status 200).
C19_DamagedFileTolerated ==
  \A i \in Slots :
    LET r == req[i]
    IN /\ OracleOf(r.ep) \in StatsDomains
       /\ r.oracleCalls = 1 /\ r.q # "non_string"
       /\ r.pc = "done"
       => r.hasResult /\ (IsPaid(r.ep) => r.status = 200)

\* The questions from which a required field cannot be extracted, with the
\* error each is answered with.
UnparsedError ==
  [no_team |-> "could_not_parse_team_name",
   no_subreddit |-> "could_not_parse_subreddit",
   post_no_id |-> "could_not_parse_post_id",
   search_no_keyword |-> "could_not_parse_search_keyword"]

\* C20: a question from which a required field cannot be extracted never
\* causes an adapter call or a provider request, and once it has reached
\* the parser (the safety pre-check, where there is one, let it pass) the
\* call has returned a failed result with its could_not_parse error.
C20_UnparsedNeverCallsProvider ==
  \A i \in Slots :
    LET r == req[i]
    IN r.oracleCalls = 1 /\ r.q \in DOMAIN UnparsedError =>
         /\ r.adapterCalls = 0 /\ r.httpCalls = 0
         /\ r.checked \in {"none", "unchecked"} =>
              /\ r.hasResult
              /\ ~r.returned.flag /\ r.returned.confidence = 0
              /\ r.returned.error = UnparsedError[r.q]
              /\ ~r.returned.safetyTriggered

C20_Witness ==
  \E i \in Slots :
    /\ req[i].q = "post_no_id" /\ req[i].hasResult
    /\ req[i].returned.error = "could_not_parse_post_id"
    /\ req[i].httpCalls = 0 /\ req[i].logged = 1

NoEnvelope(op) ==
  IF op = "post" THEN {"empty", "object", "listing", "listing_no_children"}
  ELSE {"empty", "object", "post_array", "empty_array"}

\* C22: every Reddit adapter function classifies a failed provider request
\* by its shape: status 404 as a not-found kind, 403 as access denied, 429 as
\* rate_limited, a body without the envelope as invalid_response, and any
\* other failed request as the message of the transport error.
C22_FailureClassified ==
  call.fn = "adapter" /\ call.done =>
    LET resp == call.in.response
        error == call.out
    IN /\ resp.kind = "status" /\ resp.status = 404
            => error \in {"subreddit_not_found", "post_not_found"}
       /\ resp.kind = "status" /\ resp.status = 403 => error = "subreddit_private"
       /\ resp.kind = "status" /\ resp.status = 429 => error = "rate_limited"
       /\ resp.kind = "body" /\ resp.body \in NoEnvelope(call.in.op)
            => error = "invalid_response"
       /\ resp.kind = "no_response" \/ (resp.kind = "status" /\ resp.status = 500)
            => error = ErrorMessage(resp)

\* C23: the three verification failures are answered distinctly, each
\* before askOracle is called: no credential header with 402
\* payment_required (before verify is called), verify returning
\* isValid=false with 401 insufficient_credits, verify throwing with 401
\* verification_failed; and each of these answers is given for its own
\* cause only.
C23_VerificationFailuresDistinct ==
  \A i \in Slots :
    LET r == req[i]
    IN IsPaid(r.ep) =>
         /\ ~r.hasToken =>
              /\ r.pc = "done" /\ r.status = 402 /\ r.bodyError = "payment_required"
              /\ r.verifyCalls = 0 /\ r.oracleCalls = 0
         /\ r.verifyOutcome = "invalid" =>
              /\ r.pc = "done" /\ r.status = 401 /\ r.bodyError = "insufficient_credits"
              /\ r.oracleCalls = 0
         /\ r.verifyOutcome = "throws" =>
              /\ r.pc = "done" /\ r.status = 401 /\ r.bodyError = "verification_failed"
              /\ r.oracleCalls = 0
         /\ r.bodyError = "payment_required" => ~r.hasToken
         /\ r.bodyError = "insufficient_credits" => r.verifyOutcome = "invalid"
         /\ r.bodyError = "verification_failed" => r.verifyOutcome = "throws"
         /\ r.status \in {401, 402} => Rejected(r)

\* The verify call of a request threw and the request was answered.
C23_Witness ==
  \E i \in Slots :
    /\ req[i].ep = "verify" /\ req[i].verifyOutcome = "throws"
    /\ req[i].status = 401 /\ req[i].bodyError = "verification_failed"

\* Request i waits for a data provider to answer.
AwaitsProvider(i) == req[i].pc \in {"fetching", "fetchTeam", "fetchEvents"}

\* C24: every call to a data provider returns: a request that waits for a
\* provider (the Reddit request, the team search, the events request)
\* eventually waits no longer.
C24_ProviderCallsReturn ==
  \A i \in Slots : AwaitsProvider(i) ~> ~AwaitsProvider(i)

\* sub occurs in s when letter case is ignored.
ContainsIgnoringCase(s, sub) ==
  \E k \in 0..(Len(s) - Len(sub)) :
    \A j \in 1..Len(sub) : ToLowerChar(s[k + j]) = ToLowerChar(sub[j])

\* C25: a verified sports result has confidence 0.85 exactly when an
\* opponent was supplied and, letter case ignored, it is a substring of the
\* home or the away team name; every other verified result has 0.75.
C25_SportsConfidence ==
  call.fn = "verifyResult" /\ call.done =>
    LET x == call.in
        matched == /\ x.opponent # Null
                   /\ \/ ContainsIgnoringCase(x.homeTeam, x.opponent)
                      \/ ContainsIgnoringCase(x.awayTeam, x.opponent)
    IN /\ call.out.flag
       /\ call.out.confidence =
            (IF matched THEN SportsOpponentConfidence ELSE SportsBaseConfidence)

\* An opponent in another letter case than the team name was matched.
C25_Witness ==
  /\ call.fn = "verifyResult" /\ call.done
  /\ call.in.opponent = <<"h", "e", "a", "t">> /\ call.in.awayTeam = <<"M", "i", "a", "m", "i", " ", "H", "e", "a", "t">>
  /\ call.in.homeTeam = <<"C", "h", "i", "c", "a", "g", "o", " ", "B", "u", "l", "l", "s">>
  /\ call.out.confidence = SportsOpponentConfidence

\* C26: applyConfidenceFloor(c) is the floor 0.5 for 0 < c < 0.5 and c for
\* every other c (so 0 stays 0), applying it twice gives the same as once,
\* and askOracle changes the confidence of a verified result to the floored
\* one and leaves a failed result, its outcome flag included, as it is.
C26_FloorOnlyRaises ==
  call.fn = "applyConfidenceFloor" /\ call.done =>
    LET c == call.in.confidence
        floored == IF 0 < c /\ c < MinConfidenceFloor THEN MinConfidenceFloor ELSE c
    IN /\ call.out.floor = floored
       /\ c = 0 => call.out.floor = 0
       /\ applyConfidenceFloor(call.out.floor) = call.out.floor
       /\ call.out.result.flag = call.in.flag
       /\ ~call.in.flag => call.out.result = FloorResult(call.in)
       /\ call.in.flag =>
            call.out.result = [FloorResult(call.in) EXCEPT !.confidence = floored]

\* A verified result with a confidence under the floor was raised to it.
C26_Witness ==
  /\ call.fn = "applyConfidenceFloor" /\ call.done
  /\ call.in.flag /\ call.in.confidence = 30
  /\ call.out.result.confidence = MinConfidenceFloor /\ call.out.result.flag

\* The intents in the order they are classified, and whether the keywords
\* of the n-th occur in the question (for post: the word post and a run of
\* six or more letters and digits).
IntentOrder == <<"hot", "new", "top", "search", "post">>
IntentPresent(question, n) ==
  CASE n = 1 -> \E w \in HotWords : ContainsIgnoringCase(question, w)
    [] n = 2 -> \E w \in NewWords : ContainsIgnoringCase(question, w)
    [] n = 3 -> \E w \in TopWords : ContainsIgnoringCase(question, w)
    [] n = 4 -> \E w \in SearchWords : ContainsIgnoringCase(question, w)
    [] OTHER -> /\ ContainsIgnoringCase(question, PostWord)
                /\ \E k \in 1..(Len(question) - 5) :
                     \A j \in k..(k + 5) : IsAlnum(question[j])

\* C27: the query type of a Reddit question is the earliest intent, in the
\* order hot, new, top, search, post, whose keywords the question
\* contains, and hot when it contains none.
C27_FirstMatchIntent ==
  call.fn = "parseQuestionReddit" /\ call.done =>
    LET present == {n \in 1..Len(IntentOrder) : IntentPresent(call.in, n)}
    IN call.out.type =
         (IF present = {} THEN "hot" ELSE IntentOrder[Leftmost(present)])

\* A question with a keyword of top before a keyword of new was classified
\* as new.
C27_Witness ==
  /\ call.fn = "parseQuestionReddit" /\ call.done
  /\ call.in = <<"t", "o", "p", " ", "N", "e", "w", "e", "s", "t">>
  /\ call.out.type = "new"

\* C29: "What's hot on r/wallstreetbets?" parses to subreddit
\* wallstreetbets and type hot; and whenever a question holds an r/<name>
\* marker the subreddit is the name after the first marker, whatever the
\* on/from/in and subreddit patterns would capture.
C29_MarkerTakesPrecedence ==
  call.fn = "parseQuestionReddit" /\ call.done =>
    LET question == call.in
        subreddit == call.out.subreddit
        markers == {k \in 1..(Len(question) - 2) :
                      /\ ToLowerChar(question[k]) = "r" /\ question[k + 1] = "/"
                      /\ IsWordChar(question[k + 2])}
    IN /\ question = RedditExample =>
            subreddit = <<"w", "a", "l", "l", "s", "t", "r", "e", "e", "t", "b", "e", "t", "s">> /\ call.out.type = "hot"
       /\ markers # {} =>
            LET from == Leftmost(markers) + 2
                n == Len(subreddit)
            IN /\ n >= 1 /\ from + n - 1 <= Len(question)
               /\ subreddit = SubSeq(question, from, from + n - 1)
               /\ \A j \in 1..n : IsWordChar(subreddit[j])
               /\ from + n > Len(question) \/ ~IsWordChar(question[from + n])

\* The example question was parsed.
C29_Witness ==
  /\ call.fn = "parseQuestionReddit" /\ call.done
  /\ call.in = RedditExample
  /\ call.out.subreddit = <<"w", "a", "l", "l", "s", "t", "r", "e", "e", "t", "b", "e", "t", "s">> /\ call.out.type = "hot"

\* C28: asking a sports oracle "Who won the Lakers game on 2026-01-19?"
\* parses the team "Lakers", which the alias table has turned into
\* "Los Angeles Lakers" by the time the adapter is called, with no
\* opponent and the date "2026-01-19".
C28_ExampleQueryNormalized ==
  (call.fn = "askOracleSports" /\ call.done /\ call.in.question = SportsExample) =>
    /\ call.out.parsed.team = <<"L", "a", "k", "e", "r", "s">>
    /\ call.out.adapterTeam = <<"L", "o", "s", " ", "A", "n", "g", "e", "l", "e", "s", " ", "L", "a", "k", "e", "r", "s">>
    /\ call.out.query.opponent = Null
    /\ call.out.query.date = <<"2", "0", "2", "6", "-", "0", "1", "-", "1", "9">>

\* askOracle threw to the handler: it was called and the handler is done
\* without a result.
OracleThrew(r) == IsPaid(r.ep) /\ r.oracleCalls = 1 /\ r.pc = "done" /\ ~r.hasResult

\* askOracle returned the failure of a provider request as a result.
ProviderFailed(r) ==
  IsPaid(r.ep) /\ r.hasResult /\ r.adapterCalls >= 1 /\ ~r.returned.flag

\* C30: when askOracle throws after verify succeeded, the handler answers
\* 500 oracle_error and makes no settle call, the payment state staying
\* VERIFIED; the failure of a provider request alone does not end this
\* way: it is a result, answered 200 with the outcome flag false.
C30_ThrowAnswers500Unsettled ==
  \A i \in Slots :
    LET r == req[i]
    IN /\ OracleThrew(r) =>
            /\ r.verifyOutcome = "valid"
            /\ r.status = 500 /\ r.bodyError = "oracle_error"
            /\ r.settleCalls = 0 /\ PayState(r) = "VERIFIED"
       /\ r.status = 500 => OracleThrew(r)
       /\ ProviderFailed(r) =>
            /\ r.status \in {0, 200} /\ r.bodyError = "none"
            /\ r.pc = "done" => r.status = 200 /\ ~r.oracleResult.flag

\* One request was answered 500 after a valid verify while another holds
\* the failure of its provider request as a result awaiting settlement.
C30_Witness ==
  \E i, j \in Slots :
    /\ OracleThrew(req[i]) /\ req[i].status = 500
    /\ req[i].verifyOutcome = "valid" /\ req[i].settleCalls = 0
    /\ ProviderFailed(req[j]) /\ req[j].pc = "settling"

\* askOracle returns a rejection of the safety pre-check in this step.
RejectedNow(i) ==
  ~req[i].hasResult /\ req'[i].hasResult /\ req'[i].returned.safetyTriggered

\* C31: the safety pre-check reads only: a step in which askOracle returns
\* a rejection of the pre-check leaves the stats documents as they are, and
\* a stats document changes only by the logQuery call of a request of its
\* domain, to what logQuery makes of it.
C31_PreCheckReadOnly ==
  [][/\ \A i \in Slots : RejectedNow(i) => file' = file
     /\ \A d \in StatsDomains :
          file'[d] # file[d] =>
            \E i \in Slots :
              /\ OracleOf(req'[i].ep) = d
              /\ req'[i].logged = req[i].logged + 1
              /\ file'[d] = LogQuery(d, file[d], req'[i].returned, clock)]_vars

\* The pre-check rejected a request for the quota alone, and the document
\* it read still holds exactly the quota of queries.
C31_Witness ==
  \E i \in Slots :
    /\ req[i].hasResult /\ req[i].returned.safetyTriggered
    /\ req[i].returned.error = "daily_limit_reached"
    /\ req[i].logged = 0
    /\ file[OracleOf(req[i].ep)].kind = "json"
    /\ file[OracleOf(req[i].ep)].doc.todayQueries = MaxQueriesPerDay(OracleOf(req[i].ep))

\* C32: from askOracle returning a result to the response, the handler
\* changes nothing of the result but its payment record: outcome flag,
\* confidence and error stay what askOracle returned, the payment record is
\* attached by the step that answers 200, and the 200 response carries the
\* returned result whether settlement succeeded or failed.
C32_HandlerOnlyAddsPayment ==
  [][\A i \in Slots :
       LET r == req[i]
           t == req'[i]
       IN (IsPaid(r.ep) /\ r.hasResult /\ t.hasResult) =>
            /\ Core(t.oracleResult) = Core(r.oracleResult)
            /\ Core(t.oracleResult) = Core(t.returned)
            /\ t.oracleResult.payment # r.oracleResult.payment =>
                 /\ r.pc = "settling" /\ ~r.oracleResult.payment.set
                 /\ t.pc = "done" /\ t.status = 200
                 /\ t.oracleResult.payment.set
            /\ t.pc = "done" => t.status = 200 /\ t.oracleResult.payment.set]_vars

\* A successful result was answered 200 with the payment record of a
\* settlement that succeeded, its confidence as askOracle returned it.
C32_Witness ==
  \E i \in Slots :
    /\ req[i].pc = "done" /\ req[i].status = 200 /\ req[i].hasResult
    /\ req[i].returned.flag /\ req[i].oracleResult.flag
    /\ req[i].oracleResult.confidence = req[i].returned.confidence
    /\ req[i].oracleResult.payment.creditsUsed = 1

\* YYYY-MM-DD naming a day of the calendar.
IsCanonicalDate(text) ==
  /\ Len(text) = 10 /\ IsoDateAt(text, 1)
  /\ LET y == ParseNumber(SubSeq(text, 1, 4))
         m == ParseNumber(SubSeq(text, 6, 7))
         d == ParseNumber(SubSeq(text, 9, 10))
     IN m \in 1..12 /\ d \in 1..DaysInMonth(y, m)

\* The question holds the relative term, in whatever letter case.
HasRelativeTerm(question, term) ==
  \E k \in 1..Len(question) : MatchesAtNoCase(question, k, term)

\* The question holds a date of the first two forms (an ISO date or
\* "on <word> <day>, <year>"), which the parser prefers to a relative term.
HasWrittenDate(question) ==
  \E k \in 1..Len(question) : IsoDateAt(question, k) \/ MonthDateAt(question, k) > 0

\* C33: the date of every query the sports parser returns is a calendar
\* date written YYYY-MM-DD, and a question whose only date is yesterday,
\* last night or today, in any letter case, gets the previous or the
\* current date.
C33_DateCanonical ==
  (call.fn = "askOracleSports" /\ call.done) =>
    LET question == call.in.question
        date == call.out.parsed.date
    IN /\ IsCanonicalDate(date)
       /\ ~HasWrittenDate(question) =>
            /\ HasRelativeTerm(question, <<"y", "e", "s", "t", "e", "r", "d", "a", "y">>)
                 => date \in {FormatDate(PreviousDay(call.in.now)), FormatDate(call.in.now)}
            /\ HasRelativeTerm(question, <<"t", "o", "d", "a", "y">>) /\ ~HasRelativeTerm(question, <<"y", "e", "s", "t", "e", "r", "d", "a", "y">>)
                 /\ ~HasRelativeTerm(question, <<"l", "a", "s", "t", " ", "n", "i", "g", "h", "t">>)
                 => date = FormatDate(call.in.now)

\* The keys of the alias table.
AliasKeys == {a[1] : a \in TEAM_ALIASES}

\* C34: normalizeTeamName gives the canonical name of a name whose
\* lower-cased, trimmed form is a key of the alias table, gives back every
\* other input as it is, and applying it to its own result changes nothing.
C34_NormalizeTeamName ==
  (call.fn = "normalizeTeamName" /\ call.done) =>
    LET x == call.in
        key == Trim(toLowerCase(x))
    IN /\ key \in AliasKeys =>
            \E a \in TEAM_ALIASES : a[1] = key /\ call.out.once = a[2]
       /\ key \notin AliasKeys => call.out.once = x
       /\ call.out.twice = call.out.once

\* An askOracle call of module d is under way: it passed the pre-check and
\* has not returned.
UnderWay(d) ==
  \E i \in Slots :
    /\ OracleOf(req[i].ep) = d /\ req[i].oracleCalls = 1
    /\ ~req[i].hasResult /\ req[i].pc # "done"

C36_OneLogPerCall ==
  [][\A i \in Slots :
       LET r == req[i]
           t == req'[i]
           d == OracleOf(t.ep)
       IN d \in StatsDomains =>
            /\ ~t.hasResult => t.logged = 0
            /\ (r.hasResult /\ t.hasResult) => t.logged = r.logged
            /\ (~r.hasResult /\ t.hasResult /\ t.returned.safetyTriggered) =>
                 /\ t.logged = 0
                 /\ recorded'[d] = recorded[d] /\ file'[d] = file[d]
            /\ (~r.hasResult /\ t.hasResult /\ ~t.returned.safetyTriggered) =>
                 /\ t.logged = 1
                 /\ recorded'[d] = <<t.returned.flag>> \o recorded[d]
                 /\ loadStats(file'[d], clock).recentQueries[1].flag = t.returned.flag
                 /\ Len(loadStats(file'[d], clock).recentQueries)
                      <= Len(loadStats(file[d], clock).recentQueries) + 1]_vars

\* A request of the server got a listing from the provider and holds the
\* successful result, recorded once as a success.
C36_Witness ==
  \E i \in Slots :
    /\ req[i].ep = "reddit" /\ req[i].pc = "settling"
    /\ req[i].adapterCalls = 1 /\ req[i].returned.flag
    /\ req[i].logged = 1
    /\ recorded["reddit"] # <<>> /\ recorded["reddit"][1]

\* The sum of the buckets 1..n of an hourly histogram.
RECURSIVE SumBuckets(_, _)
SumBuckets(hourlyData, n) ==
  IF n = 0 THEN 0 ELSE hourlyData[n] + SumBuckets(hourlyData, n - 1)

\* The counters of a stats state agree with each other.
Conserved(s) ==
  /\ s.totalQueries = s.successCount + s.errorCount
  /\ s.todayQueries = SumBuckets(s.hourlyData, HoursPerDay)
  /\ s.todayQueries <= s.totalQueries

\* C37: in the stats state of every domain, before and after every
\* logQuery call and every passing of time, totalQueries = successCount +
\* errorCount, todayQueries is the sum of the 24 hourly buckets and at most
\* totalQueries; and no step makes totalQueries, successCount or
\* errorCount smaller.
C37_CountersConserved ==
  [][\A d \in StatsDomains :
       LET s == loadStats(file[d], clock)
           t == loadStats(file'[d], clock')
       IN /\ Conserved(s) /\ Conserved(t)
          /\ t.totalQueries >= s.totalQueries
          /\ t.successCount >= s.successCount
          /\ t.errorCount >= s.errorCount
          /\ recorded'[d] # recorded[d] => t.totalQueries = s.totalQueries + 1]_vars

\* On the later day a success and a failure were counted on top of the
\* queries of the day before.
C37_Witness ==
  \E d \in StatsDomains :
    LET s == loadStats(file[d], clock)
    IN /\ clock.day = 1 /\ s.lastReset = 1
       /\ s.todayQueries = 2 /\ s.totalQueries > RecentCap
       /\ s.successCount >= 1 /\ s.errorCount >= 1
       /\ Len(recorded[d]) = s.totalQueries
       /\ recorded[d][1] # recorded[d][2]

\* C38: a call whose question cannot be parsed makes no provider request
\* and is recorded as a failed outcome; five such calls one after another
\* trip the breaker: whenever no call so far made a provider request and
\* five outcomes are recorded for a domain, they are all failures and the
\* breaker of the domain is tripped.
C38_ParseFailuresTrip ==
  [][\A d \in StatsDomains :
       /\ (call'.in.module = d /\ ParseErrorOf(d, call'.in.q) # "none"
            /\ checkSafetyLimits(d, file[d], clock).safe) =>
             /\ call'.out.result.error = ParseErrorOf(d, call'.in.q)
             /\ ~call'.out.result.flag
             /\ call'.out.providerCalls = ProviderCallsSoFar
             /\ recorded'[d] = <<FALSE>> \o recorded[d]
       /\ (call'.out.providerCalls = 0 /\ Len(recorded'[d]) >= MaxConsecutiveErrors) =>
             /\ \A k \in 1..Len(recorded'[d]) : ~recorded'[d][k]
             /\ Tripped(d)']_vars

\* Five calls were made, each with a question that does not parse; none
\* made a provider request, and the breaker is tripped.
C38_Witness ==
  /\ call.fn = "askOracle" /\ arrivals = MaxConsecutiveErrors
  /\ call.out.providerCalls = 0
  /\ ParseErrorOf(call.in.module, call.in.q) # "none"
  /\ call.out.result.error = ParseErrorOf(call.in.module, call.in.q)
  /\ Len(recorded[call.in.module]) = MaxConsecutiveErrors
  /\ Tripped(call.in.module)

\* C39: with a payment service that debits atomically and whose settle
\* fails only when the balance is insufficient, the requests answered with
\* an oracle result never outnumber the credits the credential started
\* with; in particular two concurrent requests on a balance of 1 cannot both
\* pass verify and both receive a result.
C39_ResultsWithinBalance == account.results <= account.initial

====
